---- MODULE Spec2Model ----
(***************************************************************************)
(* balijarbas: the Decision Loop (decideAndAct), the Tool Dispatcher       *)
(* (handleToolCall) and the Scheduled Invocation Manager (scheduler.ts).   *)
(*                                                                         *)
(* The specifications share the state:                                     *)
(*   LoopSpec  - one turn of decideAndAct against a model that may answer  *)
(*               anything from a vocabulary of tool calls (FairLoopSpec    *)
(*               adds that the provider and the handlers return);          *)
(*   SchedSpec - the scheduler under tool dispatches of every chat, the    *)
(*               clock, timer callbacks and scheduled executions;          *)
(*   TeardownSpec - the live set under task creation and the membership    *)
(*               updates of the bot.                                       *)
(*   ConfigSpec - the configuration tools of the dispatcher;               *)
(*   NotesSpec - the note tools of the dispatcher;                         *)
(*   FinalSpec - one turn whose responses hold capability-server calls;    *)
(*   HandlerSpec - the message handlers around decideAndAct;               *)
(*   StartupSpec - the process from the load of its modules on;            *)
(*   InputSpec - currentInput through the cycles of a turn, for both       *)
(*               provider adapters;                                        *)
(*   AdapterSpec - a turn whose responses are what the adapters parse out  *)
(*               of the answers of their backends;                         *)
(*   HistorySpec - a turn whose sendMessage calls are recorded in the      *)
(*               history of the chat;                                      *)
(*   InlineSpec - the inline_query handler around processInlineQuery.      *)
(***************************************************************************)
EXTENDS Integers, Sequences, FiniteSets, TLC

\* ------------------------------------------------------------------ bounds
\* The clock runs over 0..MaxTime.
MaxTime == 1
\* How many times randomUUID is drawn (task ids are 1..MaxIds).
MaxIds == 2
\* The longest list of tool calls in one model response.
MaxCalls == 2
\* How many notes are added (note ids are 1..MaxNotes).
MaxNotes == 2
\* The longest text the model answers an inline query with.
MaxAnswer == 4002

\* --------------------------------------------------------------- constants
MAX_TOOL_CALLS == 8
MAX_CONTEXT_MESSAGES == 10

\* ------------------------------------------------------------------ values
Chats == {1, 2}
Users == {"ann"}
Prompts == {"p"}
TaskIds == 1..MaxIds
\* A task id argument: 0 stands for any string that is no issued id
\* (a missing task_id included).
TaskIdArgs == 0..MaxIds

Undefined == "<undefined>"
NullV == "<null>"
NaN == -1

\* A schedule expression is a string; what the code does with it depends only
\* on how Date and the cron parser read it: an ISO date of instant t (the first
\* and the last instant of the clock), a valid cron expression, or text that
\* is neither.
IsoDates == [kind : {"iso"}, t : {0, MaxTime}]
CronExpr == [kind |-> "cron", t |-> 0]
JunkExpr == [kind |-> "junk", t |-> 0]
ScheduleExprs == IsoDates \cup {CronExpr, JunkExpr}

\* new Date(scheduleExpr).getTime(): NaN unless the text is a date.
DateParse(expr) == IF expr.kind = "iso" THEN expr.t ELSE NaN

\* cron-parser accepts the expression.
CronValid(expr) == expr.kind = "cron"

VARIABLES
    now,             \* Date.now()
    scheduledTasks,  \* scheduler.ts: scheduledTasks (Map taskId -> ScheduledTask)
    timers,          \* node-schedule jobs with a pending invocation, by task id
    uuid,            \* how many ids randomUUID has produced
    executing,       \* tasks whose executeScheduledPrompt awaits the provider
    sessions,        \* ctx.session of each chat
    noteSeq,         \* how many note ids were produced
    ret,             \* what the last operation returned (a scheduled execution: logged)
    pc,              \* decideAndAct: position in the turn
    turnChat,        \* decideAndAct: ctx.chat.id
    numToolsCalled,  \* decideAndAct: numToolsCalled
    numCompletes,    \* decideAndAct: provider.complete calls of the turn
    response,        \* decideAndAct: response of the last provider.complete
    callIdx,         \* decideAndAct: position in functionCalls
    toolResults,     \* decideAndAct: toolResults
    inFlight,        \* function calls whose handler was started and not awaited yet
    obs,             \* observations of the turn (what a test harness would count)
    proc             \* the process: its environment, and the providers it constructed

schedVars == <<now, scheduledTasks, timers, uuid, executing>>
turnVars == <<pc, turnChat, numToolsCalled, numCompletes, response, callIdx,
              toolResults, inFlight, obs>>
vars == <<now, scheduledTasks, timers, uuid, executing, sessions, noteSeq, ret,
          pc, turnChat, numToolsCalled, numCompletes, response, callIdx,
          toolResults, inFlight, obs, proc>>

\* The map f without the keys outside S (Map.delete).
Restrict(f, S) == [i \in S |-> f[i]]

\* ------------------------------------------------------- scheduler (part_006)
NoJob == [ok |-> FALSE, oneTime |-> FALSE, at |-> 0]

\* schedule.scheduleJob(runDate, cb): a one-time job, null when the date passed.
ScheduleJobDate(runDate, t) ==
    IF runDate >= t THEN [ok |-> TRUE, oneTime |-> TRUE, at |-> runDate] ELSE NoJob

\* schedule.scheduleJob(scheduleExpr, cb) with a string (node-schedule,
\* Job.schedule): a recurring job when the cron parser accepts the string,
\* its first invocation pending for the next match after t (the expression of
\* the model matches every unit of time); when the parser rejects it, the
\* string is read with new Date(spec) and a valid date that has not passed is
\* scheduled as a one-time job; otherwise null.
ScheduleJobString(expr, t) ==
    IF CronValid(expr) THEN [ok |-> TRUE, oneTime |-> FALSE, at |-> t + 1]
    ELSE IF DateParse(expr) # NaN THEN ScheduleJobDate(DateParse(expr), t)
    ELSE NoJob

\* randomUUID() when n ids were drawn before: an id none of them equals.
RandomUUID(n) == n + 1

Failure(msg) == [success |-> FALSE, taskId |-> 0, error |-> msg]

ErrInvalidDate == "Invalid date format for one-time task. Use ISO 8601 format."
ErrFuture == "Scheduled time must be in the future."
ErrNoJob == "Failed to create schedule. Check the cron expression or date format."
ErrNotFound == "Task not found."
ErrNotOwner == "Task does not belong to this chat."

\* Faulty variant: the creator stored as the prompt and the prompt as the creator.
NewTask_FieldsSwapped(taskId, chatId, prompt, scheduleExpr, recurring, createdBy) ==
    [id |-> taskId, chatId |-> chatId, prompt |-> createdBy, schedule |-> scheduleExpr,
     recurring |-> recurring, createdBy |-> prompt]

\* The ScheduledTask object stored in the map. Its job is the entry of timers
\* under the same id; createdAt is written here and read nowhere, and is left out.
NewTask(taskId, chatId, prompt, scheduleExpr, recurring, createdBy) ==
    [id |-> taskId, chatId |-> chatId, prompt |-> prompt, schedule |-> scheduleExpr,
     recurring |-> recurring, createdBy |-> createdBy]

\* Faulty variant: createScheduledTask comparing the date with < instead of <=.
CreateScheduledTask_AcceptsNow(tasks, tmrs, t, taskId, chatId, prompt, scheduleExpr, recurring, createdBy) ==
    LET runDate == DateParse(scheduleExpr)
        job == IF recurring THEN ScheduleJobString(scheduleExpr, t)
               ELSE ScheduleJobDate(runDate, t)
        same(r) == [result |-> r, tasks |-> tasks, timers |-> tmrs]
    IN  IF ~recurring /\ runDate = NaN THEN same(Failure(ErrInvalidDate))
        ELSE IF ~recurring /\ runDate < t THEN same(Failure(ErrFuture))
        ELSE IF ~job.ok THEN same(Failure(ErrNoJob))
        ELSE [result |-> [success |-> TRUE, taskId |-> taskId, error |-> ""],
              tasks |-> [i \in (DOMAIN tasks) \cup {taskId} |->
                            IF i = taskId
                            THEN NewTask(taskId, chatId, prompt, scheduleExpr,
                                         recurring, createdBy)
                            ELSE tasks[i]],
              timers |-> [i \in (DOMAIN tmrs) \cup {taskId} |->
                            IF i = taskId
                            THEN [oneTime |-> job.oneTime, at |-> job.at]
                            ELSE tmrs[i]]]

\* createScheduledTask: the returned value and the scheduler state after it.
\* tasks/tmrs/t are scheduledTasks, timers and now before the call; taskId is
\* the id randomUUID gave.
CreateScheduledTask(tasks, tmrs, t, taskId, chatId, prompt, scheduleExpr, recurring, createdBy) ==
    LET runDate == DateParse(scheduleExpr)
        job == IF recurring THEN ScheduleJobString(scheduleExpr, t)
               ELSE ScheduleJobDate(runDate, t)
        same(r) == [result |-> r, tasks |-> tasks, timers |-> tmrs]
    IN  IF ~recurring /\ runDate = NaN THEN same(Failure(ErrInvalidDate))
        ELSE IF ~recurring /\ runDate <= t THEN same(Failure(ErrFuture))
        ELSE IF ~job.ok THEN same(Failure(ErrNoJob))
        ELSE [result |-> [success |-> TRUE, taskId |-> taskId, error |-> ""],
              tasks |-> [i \in (DOMAIN tasks) \cup {taskId} |->
                            IF i = taskId
                            THEN NewTask(taskId, chatId, prompt, scheduleExpr,
                                         recurring, createdBy)
                            ELSE tasks[i]],
              timers |-> [i \in (DOMAIN tmrs) \cup {taskId} |->
                            IF i = taskId
                            THEN [oneTime |-> job.oneTime, at |-> job.at]
                            ELSE tmrs[i]]]

\* job.nextInvocation(): the pending invocation of the job, if any.
\* Faulty variant: the next run of a recurring job computed from the clock.
NextInvocation_FromNow(tmrs, id, t) ==
    IF id \notin DOMAIN tmrs THEN NaN
    ELSE IF tmrs[id].oneTime THEN tmrs[id].at
    ELSE t + 1

\* job.nextInvocation(): the fire date of the pending invocation of the job,
\* null when it has none.
NextInvocation(tmrs, id, t) ==
    IF id \notin DOMAIN tmrs THEN NaN
    ELSE tmrs[id].at

\* listScheduledTasks: the summaries of the chat's tasks.
ListScheduledTasks(tasks, tmrs, t, chatId) ==
    { [id |-> tasks[i].id, prompt |-> tasks[i].prompt, schedule |-> tasks[i].schedule,
       recurring |-> tasks[i].recurring, createdBy |-> tasks[i].createdBy,
       nextRun |-> NextInvocation(tmrs, i, t)] :
      i \in {j \in DOMAIN tasks : tasks[j].chatId = chatId} }

\* Faulty variant: cancelScheduledTask without job.cancel().
CancelScheduledTask_JobNotCancelled(tasks, tmrs, taskId, chatId) ==
    LET same(r) == [result |-> r, tasks |-> tasks, timers |-> tmrs]
    IN  IF taskId \notin DOMAIN tasks THEN same(Failure(ErrNotFound))
        ELSE IF tasks[taskId].chatId # chatId THEN same(Failure(ErrNotOwner))
        ELSE [result |-> [success |-> TRUE, taskId |-> 0, error |-> ""],
              tasks |-> Restrict(tasks, (DOMAIN tasks) \ {taskId}),
              timers |-> tmrs]

\* Faulty variant: cancelScheduledTask without the ownership test.
CancelScheduledTask_NoOwnerTest(tasks, tmrs, taskId, chatId) ==
    LET same(r) == [result |-> r, tasks |-> tasks, timers |-> tmrs]
    IN  IF taskId \notin DOMAIN tasks THEN same(Failure(ErrNotFound))
        ELSE [result |-> [success |-> TRUE, taskId |-> 0, error |-> ""],
              tasks |-> Restrict(tasks, (DOMAIN tasks) \ {taskId}),
              timers |-> Restrict(tmrs, (DOMAIN tmrs) \ {taskId})]

\* cancelScheduledTask: the returned value and the scheduler state after it.
CancelScheduledTask(tasks, tmrs, taskId, chatId) ==
    LET same(r) == [result |-> r, tasks |-> tasks, timers |-> tmrs]
    IN  IF taskId \notin DOMAIN tasks THEN same(Failure(ErrNotFound))
        ELSE IF tasks[taskId].chatId # chatId THEN same(Failure(ErrNotOwner))
        ELSE [result |-> [success |-> TRUE, taskId |-> 0, error |-> ""],
              tasks |-> Restrict(tasks, (DOMAIN tasks) \ {taskId}),
              timers |-> Restrict(tmrs, (DOMAIN tmrs) \ {taskId})]

\* cancelAllTasksForChat
CancelAllTasksForChat(tasks, tmrs, chatId) ==
    LET gone == {i \in DOMAIN tasks : tasks[i].chatId = chatId}
    IN  [tasks |-> Restrict(tasks, (DOMAIN tasks) \ gone),
         timers |-> Restrict(tmrs, (DOMAIN tmrs) \ gone)]

\* ------------------------------------------------------ dispatcher (part_005)
\* Argument values as the model can emit them.
NotAString == "<number>"
Truthy(v) == v \notin {Undefined, NullV, ""}
IsString(v) == v \notin {Undefined, NullV, NotAString}

\* key.toLowerCase().trim()
Normalize(key) ==
    CASE key = " Shop " -> "shop"
      [] key = "SHOP" -> "shop"
      [] key = "  " -> ""
      [] OTHER -> key

\* The parsed argument object of a call; a field the object lacks is Undefined
\* (schedule: text that is no schedule; recurring: falsy; ids: no id).
NoArgs ==
    [prompt |-> Undefined, schedule |-> JunkExpr, recurring |-> FALSE, task_id |-> 0,
     key |-> Undefined, content |-> Undefined, note_id |-> 0,
     custom_prompt |-> Undefined, language |-> Undefined, personality |-> Undefined,
     text |-> Undefined]

\* JSON.stringify of a result object: the fields it has, its success and error
\* fields, and the rest of the payload.
Json(keys, success, error, data) ==
    [keys |-> keys, success |-> success, error |-> error, data |-> data]

JsonOk(keys, data) == Json({"success"} \cup keys, "true", "", data)
JsonFail(error) == Json({"success", "error"}, "false", error, <<>>)
ErrUnknownTool == "Unknown tool"
ErrNoteNotFound == "Note not found."
ErrNoNotes == "No notes found"

DefaultConfig == [customPrompt |-> NullV, language |-> NullV, personality |-> NullV]

\* The outcome of one handleToolCall: whether it threw, the string it returned,
\* and the state it left.
Outcome(threw, out, tasks, tmrs, session) ==
    [threw |-> threw, out |-> out, tasks |-> tasks, timers |-> tmrs, session |-> session]

Thrown(tasks, tmrs, session) ==
    Outcome(TRUE, Json({}, "absent", "TypeError", <<>>), tasks, tmrs, session)

\* The notes of a session after pushing a note under a normalized key.
PushNote(notes, key, note) ==
    [k \in (DOMAIN notes) \cup {key} |->
        IF k = key
        THEN (IF key \in DOMAIN notes THEN Append(notes[key], note) ELSE <<note>>)
        ELSE notes[k]]

NoteIds(notes) == UNION {{notes[k][i].id : i \in 1..Len(notes[k])} : k \in DOMAIN notes}

RemoveAt(seq, idx) == [i \in 1..(Len(seq) - 1) |-> IF i < idx THEN seq[i] ELSE seq[i + 1]]

\* Faulty variant: the emptied list left under its key.
RemoveNote_KeepsEmptyKey(notes, noteId) ==
    LET key == CHOOSE k \in DOMAIN notes : \E i \in 1..Len(notes[k]) : notes[k][i].id = noteId
        idx == CHOOSE i \in 1..Len(notes[key]) : notes[key][i].id = noteId
    IN  [notes EXCEPT ![key] = RemoveAt(notes[key], idx)]

\* Faulty variant: the whole category of the note deleted.
RemoveNote_WholeCategory(notes, noteId) ==
    LET key == CHOOSE k \in DOMAIN notes : \E i \in 1..Len(notes[k]) : notes[k][i].id = noteId
    IN  Restrict(notes, (DOMAIN notes) \ {key})

\* items.splice(index, 1) on the list holding the note, and the key deleted
\* when the list becomes empty.
RemoveNote(notes, noteId) ==
    LET key == CHOOSE k \in DOMAIN notes : \E i \in 1..Len(notes[k]) : notes[k][i].id = noteId
        idx == CHOOSE i \in 1..Len(notes[key]) :
                   notes[key][i].id = noteId /\ \A j \in 1..(i - 1) : notes[key][j].id # noteId
        rest == RemoveAt(notes[key], idx)
    IN  IF Len(rest) = 0 THEN Restrict(notes, (DOMAIN notes) \ {key})
        ELSE [notes EXCEPT ![key] = rest]

KeyOfNote(notes, noteId) ==
    CHOOSE k \in DOMAIN notes : \E i \in 1..Len(notes[k]) : notes[k][i].id = noteId

\* The names of the function tools declared in the catalog (tools).
ToolNames ==
    {"schedule_task", "list_tasks", "cancel_task", "get_config", "set_config",
     "reset_config", "add_note", "list_notes", "remove_note", "clear_notes"}

\* Faulty variant: a field given as null treated as omitted.
SetConfigField_NullKeeps(given, current) ==
    IF given \notin {Undefined, NullV} THEN given ELSE current

\* set_config, one field: given !== undefined ? given : current (part_005:299-305).
SetConfigField(given, current) == IF given # Undefined THEN given ELSE current

\* handleToolCall(toolName, args, ctx, userName): taskId and noteId are the
\* fresh ids randomUUID and the note id generator give in this call.
HandleToolCall(toolName, args, chatId, userName, tasks, tmrs, t, taskId, session, noteId) ==
    CASE toolName = "schedule_task" ->
            LET r == CreateScheduledTask(tasks, tmrs, t, taskId, chatId, args.prompt,
                                         args.schedule, args.recurring, userName)
            IN  IF r.result.success
                THEN Outcome(FALSE, JsonOk({"message", "taskId"}, <<r.result.taskId>>),
                             r.tasks, r.timers, session)
                ELSE Outcome(FALSE, JsonFail(r.result.error), r.tasks, r.timers, session)
      [] toolName = "list_tasks" ->
            Outcome(FALSE, Json({"tasks"}, "absent", "",
                                <<ListScheduledTasks(tasks, tmrs, t, chatId)>>),
                    tasks, tmrs, session)
      [] toolName = "cancel_task" ->
            LET r == CancelScheduledTask(tasks, tmrs, args.task_id, chatId)
            IN  IF r.result.success
                THEN Outcome(FALSE, JsonOk({}, <<>>), r.tasks, r.timers, session)
                ELSE Outcome(FALSE, JsonFail(r.result.error), r.tasks, r.timers, session)
      [] toolName = "cancel_all_tasks" ->
            LET r == CancelAllTasksForChat(tasks, tmrs, chatId)
            IN  Outcome(FALSE, JsonOk({"message"}, <<>>), r.tasks, r.timers, session)
      [] toolName = "get_config" ->
            Outcome(FALSE, Json({"config"}, "absent", "", <<session.config>>),
                    tasks, tmrs, session)
      [] toolName = "set_config" ->
            LET cur == session.config
                new == [customPrompt |-> SetConfigField(args.custom_prompt, cur.customPrompt),
                        language |-> SetConfigField(args.language, cur.language),
                        personality |-> SetConfigField(args.personality, cur.personality)]
            IN  Outcome(FALSE, JsonOk({"message", "config"}, <<new>>), tasks, tmrs,
                        [session EXCEPT !.config = new])
      [] toolName = "reset_config" ->
            Outcome(FALSE, JsonOk({"message", "config"}, <<DefaultConfig>>), tasks, tmrs,
                    [session EXCEPT !.config = DefaultConfig])
      [] toolName = "add_note" ->
            IF ~IsString(args.key) THEN Thrown(tasks, tmrs, session)
            ELSE LET key == Normalize(args.key)
                     note == [id |-> noteId, content |-> args.content,
                              createdAt |-> t, createdBy |-> userName]
                 IN  Outcome(FALSE, JsonOk({"message", "key", "note"}, <<key, note>>),
                             tasks, tmrs,
                             [session EXCEPT !.notes = PushNote(session.notes, key, note)])
      [] toolName = "list_notes" ->
            IF Truthy(args.key)
            THEN IF ~IsString(args.key) THEN Thrown(tasks, tmrs, session)
                 ELSE LET key == Normalize(args.key)
                          keyNotes == IF key \in DOMAIN session.notes
                                      THEN session.notes[key] ELSE <<>>
                      IN  Outcome(FALSE, Json({"key", "notes", "count"}, "absent", "",
                                              <<key, keyNotes, Len(keyNotes)>>),
                                  tasks, tmrs, session)
            ELSE Outcome(FALSE, Json({"notes", "keys", "totalCount"}, "absent", "",
                                     <<session.notes, DOMAIN session.notes>>),
                         tasks, tmrs, session)
      [] toolName = "remove_note" ->
            IF args.note_id \in NoteIds(session.notes)
            THEN Outcome(FALSE,
                         JsonOk({"message", "key"},
                                <<KeyOfNote(session.notes, args.note_id), "Note removed">>),
                         tasks, tmrs,
                         [session EXCEPT !.notes = RemoveNote(session.notes, args.note_id)])
            ELSE Outcome(FALSE, JsonFail(ErrNoteNotFound), tasks, tmrs, session)
      [] toolName = "clear_notes" ->
            IF Truthy(args.key)
            THEN IF ~IsString(args.key) THEN Thrown(tasks, tmrs, session)
                 ELSE LET key == Normalize(args.key)
                      IN  IF key \in DOMAIN session.notes
                          THEN Outcome(FALSE, JsonOk({"message", "key"},
                                                     <<key, "All notes cleared">>),
                                       tasks, tmrs,
                                       [session EXCEPT !.notes =
                                           Restrict(session.notes, (DOMAIN session.notes) \ {key})])
                          ELSE Outcome(FALSE, JsonFail(ErrNoNotes), tasks, tmrs, session)
            ELSE Outcome(FALSE, JsonOk({"message"}, <<>>), tasks, tmrs,
                         [session EXCEPT !.notes = <<>>])
      [] OTHER ->
            Outcome(FALSE, Json({"error"}, "absent", ErrUnknownTool, <<>>),
                    tasks, tmrs, session)

\* ------------------------------------------- the process (config.ts, llm/index.ts)
\* process.env: the provider discriminator, the credentials of the two
\* providers, the bot token and the host of the capability server, each unset,
\* empty or set.
Envs ==
    [LLM_PROVIDER : {Undefined, "", "openai", "gemini", "claude"},
     OPENAI_API_KEY : {Undefined, "", "k"},
     GEMINI_API_KEY : {Undefined, "", "k"},
     BOT_TOKEN : {Undefined, "t"},
     TELEGRAM_MCP_HOST : {Undefined, "h"}]
DefaultEnv ==
    [LLM_PROVIDER |-> Undefined, OPENAI_API_KEY |-> "k", GEMINI_API_KEY |-> Undefined,
     BOT_TOKEN |-> "t", TELEGRAM_MCP_HOST |-> "h"]

\* The validation of config.ts:9-12, evaluated when the module is imported:
\* the message of the error thrown, "" when none is.
ConfigValidation(env) ==
    IF ~Truthy(env.BOT_TOKEN) THEN "Missing BOT_TOKEN"
    ELSE IF ~Truthy(env.OPENAI_API_KEY) THEN "Missing OPENAI_API_KEY"
    ELSE IF ~Truthy(env.TELEGRAM_MCP_HOST) THEN "Missing TELEGRAM_MCP_HOST"
    ELSE ""

\* createProviderFromEnv: the kind of the provider constructed, or the
\* message of the error thrown.
CreateProviderFromEnv(env) ==
    LET providerType == IF env.LLM_PROVIDER = Undefined THEN "openai" ELSE env.LLM_PROVIDER
    IN  CASE providerType = "openai" ->
               IF ~Truthy(env.OPENAI_API_KEY)
               THEN [ok |-> FALSE, kind |-> "", error |-> "OPENAI_API_KEY is required"]
               ELSE [ok |-> TRUE, kind |-> "openai", error |-> ""]
          [] providerType = "gemini" ->
               IF ~Truthy(env.GEMINI_API_KEY)
               THEN [ok |-> FALSE, kind |-> "", error |-> "GEMINI_API_KEY is required"]
               ELSE [ok |-> TRUE, kind |-> "gemini", error |-> ""]
          [] OTHER -> [ok |-> FALSE, kind |-> "", error |-> "Unknown LLM_PROVIDER"]

\* The process before its modules are loaded.
Loading ==
    [phase |-> "loading", env |-> DefaultEnv, error |-> "", instances |-> <<>>,
     llm |-> 0, scheduler |-> 0, uses |-> {}]

\* The modules loaded (index.ts imports config.js, then scheduler.js and
\* handlers.js, which imports llm.js): the validation of config.ts, then the
\* provider of llm.ts:26 constructed; the provider variable of scheduler.ts is
\* left unset.
Loaded(env) ==
    LET made == CreateProviderFromEnv(env)
    IN  IF ConfigValidation(env) # ""
        THEN [Loading EXCEPT !.phase = "failed", !.env = env, !.error = ConfigValidation(env)]
        ELSE IF ~made.ok
        THEN [Loading EXCEPT !.phase = "failed", !.env = env, !.error = made.error]
        ELSE [Loading EXCEPT !.phase = "running", !.env = env,
                             !.instances = <<[owner |-> "llm", kind |-> made.kind]>>,
                             !.llm = 1]

\* ------------------------------------------------------------ initial state
InitialSession == [messages |-> <<>>, config |-> DefaultConfig, notes |-> <<>>]

\* What the last step returned: whether it threw, and the returned string.
Ret(threw, out) == [threw |-> threw, out |-> out]
NoOut == Json({}, "absent", "", <<>>)
NoRet == Ret(FALSE, NoOut)

NoResponse == [toolCalls |-> <<>>, hasText |-> FALSE]
NoObs == [dispatched |-> 0, returned |-> 0, cycles |-> 0, recorded |-> 0,
          warned |-> FALSE, fault |-> "none",
          chatType |-> "private", fallbacks |-> 0, raised |-> FALSE]

InitWith(process) ==
    /\ now = 0
    /\ scheduledTasks = <<>>
    /\ timers = <<>>
    /\ uuid = 0
    /\ executing = {}
    /\ sessions = [c \in Chats |-> InitialSession]
    /\ noteSeq = 0
    /\ ret = NoRet
    /\ pc = "idle"
    /\ turnChat = 0
    /\ numToolsCalled = 0
    /\ numCompletes = 0
    /\ response = NoResponse
    /\ callIdx = 0
    /\ toolResults = <<>>
    /\ inFlight = {}
    /\ obs = NoObs
    /\ proc = process

\* The process running, started with the provider left to its default.
Init == InitWith(Loaded(DefaultEnv))

\* The process about to load its modules.
Boot == InitWith(Loading)

\* ------------------------------------------------------------- process steps
\* The modules are loaded under the environment env.
ModulesLoad(env) ==
    /\ proc.phase = "loading"
    /\ proc' = Loaded(env)
    /\ UNCHANGED <<schedVars, turnVars, sessions, noteSeq, ret>>

\* provider.complete of a turn (llm.ts:137) and of an inline query
\* (llm.ts:251): the provider of llm.ts.
LlmProviderUsed(by) ==
    /\ proc.phase = "running"
    /\ proc' = [proc EXCEPT !.uses = @ \cup {[by |-> by, instance |-> proc.llm]}]
    /\ UNCHANGED <<schedVars, turnVars, sessions, noteSeq, ret>>

\* getSchedulerProvider: the provider of scheduler.ts, constructed by the
\* first call.
GetSchedulerProvider(process) ==
    IF process.scheduler = 0
    THEN [process EXCEPT
             !.instances = Append(@, [owner |-> "scheduler",
                                      kind |-> CreateProviderFromEnv(process.env).kind]),
             !.scheduler = Len(process.instances) + 1]
    ELSE process

\* llmProvider.complete of a scheduled execution (part_006:82-87).
SchedulerProviderUsed ==
    /\ proc.phase = "running"
    /\ proc' = [GetSchedulerProvider(proc) EXCEPT
                   !.uses = @ \cup {[by |-> "fire",
                                     instance |-> GetSchedulerProvider(proc).scheduler]}]
    /\ UNCHANGED <<schedVars, turnVars, sessions, noteSeq, ret>>

StartupNext ==
    \/ \E env \in Envs : ModulesLoad(env)
    \/ \E by \in {"turn", "inline"} : LlmProviderUsed(by)
    \/ SchedulerProviderUsed

StartupSpec == Boot /\ [][StartupNext]_vars

\* ----------------------------------------------------------- scheduler steps
\* One handleToolCall, as a turn of chat c dispatches it (llm.ts:151): the
\* handler runs to its return without yielding, and ret holds what it returned
\* until the awaiting turn resumes.
Dispatch(c, u, name, args) ==
    LET o == HandleToolCall(name, args, c, u, scheduledTasks, timers, now,
                            RandomUUID(uuid), sessions[c], noteSeq + 1)
    IN  /\ ret = NoRet
        /\ name = "schedule_task" => uuid < MaxIds
        /\ name = "add_note" => noteSeq < MaxNotes
        /\ scheduledTasks' = o.tasks
        /\ timers' = o.timers
        /\ sessions' = [sessions EXCEPT ![c] = o.session]
        /\ uuid' = IF name = "schedule_task" THEN uuid + 1 ELSE uuid
        /\ noteSeq' = IF name = "add_note" /\ ~o.threw THEN noteSeq + 1 ELSE noteSeq
        /\ ret' = Ret(o.threw, o.out)
        /\ UNCHANGED <<now, executing>>

ScheduleArgs ==
    {[NoArgs EXCEPT !.prompt = p, !.schedule = e, !.recurring = r] :
        p \in Prompts, e \in ScheduleExprs, r \in BOOLEAN}
CancelArgs == {[NoArgs EXCEPT !.task_id = i] : i \in TaskIdArgs}

SchedulerCalls ==
    ({"schedule_task"} \X ScheduleArgs) \cup ({"cancel_task"} \X CancelArgs)
    \cup ({"list_tasks", "cancel_all_tasks", "frobnicate"} \X {NoArgs})

SchedulerToolCall ==
    \E c \in Chats, u \in Users, call \in SchedulerCalls :
        /\ Dispatch(c, u, call[1], call[2])
        /\ UNCHANGED <<turnVars, proc>>

\* The turn that awaited the handler resumes with the returned string
\* (llm.ts:151-163), or the promise of a scheduled execution settles; no timer
\* callback runs before that.
ResultTaken ==
    /\ ret # NoRet
    /\ pc = "idle"
    /\ ret' = NoRet
    /\ UNCHANGED <<now, scheduledTasks, timers, uuid, executing, sessions, noteSeq>>
    /\ UNCHANGED <<turnVars, proc>>

\* Time passes.
Tick ==
    /\ ret = NoRet
    /\ now < MaxTime
    /\ now' = now + 1
    /\ ret' = NoRet
    /\ UNCHANGED <<scheduledTasks, timers, uuid, executing, sessions, noteSeq>>
    /\ UNCHANGED <<turnVars, proc>>

\* The callback node-schedule runs for the job of task id (part_006:124-127,
\* 143-146), at or after the fire date of its pending invocation; a cron job
\* then has its next match pending.
\* executeScheduledPrompt starts when the task is still in the map.
TimerFire(id) ==
    /\ ret = NoRet
    /\ id \in DOMAIN timers
    /\ now >= timers[id].at
    /\ \A task \in executing : task.id # id
    /\ timers' = IF timers[id].oneTime THEN Restrict(timers, (DOMAIN timers) \ {id})
                 ELSE [timers EXCEPT ![id].at = @ + 1]
    /\ executing' = IF id \in DOMAIN scheduledTasks
                    THEN executing \cup {scheduledTasks[id]} ELSE executing
    /\ ret' = NoRet
    /\ UNCHANGED <<now, scheduledTasks, uuid, sessions, noteSeq>>
    /\ UNCHANGED <<turnVars, proc>>

\* What the provider call of a scheduled execution comes to: it throws, or it
\* returns text, a capability-server call or (offered or not) a function call.
ScheduledOutcomes ==
    { [threw |-> TRUE, toolCalls |-> <<>>],
      [threw |-> FALSE, toolCalls |-> <<>>],
      [threw |-> FALSE,
       toolCalls |-> <<[id |-> 1, type |-> "mcp_call", name |-> "sendMessage",
                        arguments |-> "{\"text\":\"hi\"}"]>>],
      [threw |-> FALSE,
       toolCalls |-> <<[id |-> 1, type |-> "function_call", name |-> "cancel_all_tasks",
                        arguments |-> "{}"]>>] }

\* What executeScheduledPrompt logs when it ends (part_006:89-107): the task,
\* the number of tool calls of the response, and whether the task was removed
\* as a one-time task.
ExecutionLog(task, outcome) ==
    Json({"log"}, IF outcome.threw THEN "false" ELSE "true",
         IF outcome.threw THEN "Error executing scheduled task" ELSE "",
         <<task.id, Len(outcome.toolCalls), ~task.recurring>>)

\* getSchedulerTools(): the tools offered to the provider by a scheduled
\* execution (part_006:40-59).
GetSchedulerTools == {[type |-> "mcp", name |-> "telegram-mcp"],
                      [type |-> "web_search", name |-> ""]}

\* Faulty variant: a cancel_all_tasks call of the response dispatched for the chat.
ExecuteScheduledPrompt_Dispatching(tasks, task, outcome) ==
    LET kept == IF \E i \in 1..Len(outcome.toolCalls) :
                      outcome.toolCalls[i].type = "function_call"
                THEN {i \in DOMAIN tasks : tasks[i].chatId # task.chatId}
                ELSE DOMAIN tasks
    IN  Restrict(tasks, IF task.recurring THEN kept ELSE kept \ {task.id})

\* Faulty variant: the one-time task removed only when the provider call succeeded.
ExecuteScheduledPrompt_KeptOnError(tasks, task, outcome) ==
    IF ~task.recurring /\ ~outcome.threw
    THEN Restrict(tasks, (DOMAIN tasks) \ {task.id})
    ELSE tasks

\* executeScheduledPrompt from the point its provider call settles
\* (part_006:84-107): scheduledTasks after it.  The response is logged and
\* nothing of it is dispatched; a one-time task is removed from the map.
ExecuteScheduledPrompt(tasks, task, outcome) ==
    IF ~task.recurring
    THEN Restrict(tasks, (DOMAIN tasks) \ {task.id})
    ELSE tasks

\* The provider call of the execution of task settles with outcome, and
\* executeScheduledPrompt runs to its end.
ExecutionEnds(task, outcome) ==
    /\ ret = NoRet
    /\ task \in executing
    /\ executing' = executing \ {task}
    /\ scheduledTasks' = ExecuteScheduledPrompt(scheduledTasks, task, outcome)
    /\ ret' = Ret(FALSE, ExecutionLog(task, outcome))
    /\ UNCHANGED <<now, timers, uuid, sessions, noteSeq>>
    /\ UNCHANGED <<turnVars, proc>>

\* The statuses of a chat member, as my_chat_member reports them for the bot.
Statuses == {"member", "administrator", "restricted", "left", "kicked"}

\* resetSession(ctx): the session of the chat as it is created.
ResetSession(session) == InitialSession

\* The my_chat_member handler (handlers.ts:31-54) for an update of chat c
\* with the old and the new status of the bot; ret holds the update handled.
MyChatMember(c, oldStatus, newStatus) ==
    LET joined == newStatus \in {"member", "administrator"}
                  /\ oldStatus \in {"left", "kicked"}
        removed == newStatus \in {"left", "kicked"}
                   /\ oldStatus \in {"member", "administrator"}
        r == CancelAllTasksForChat(scheduledTasks, timers, c)
    IN  /\ ret = NoRet
        /\ sessions' = IF joined \/ removed
                       THEN [sessions EXCEPT ![c] = ResetSession(@)] ELSE sessions
        /\ scheduledTasks' = IF removed THEN r.tasks ELSE scheduledTasks
        /\ timers' = IF removed THEN r.timers ELSE timers
        /\ ret' = Ret(FALSE, Json({"my_chat_member"}, "absent", "",
                                  <<c, oldStatus, newStatus>>))
        /\ UNCHANGED <<now, uuid, executing, noteSeq>>
        /\ UNCHANGED <<turnVars, proc>>

SchedNext ==
    \/ SchedulerToolCall
    \/ ResultTaken
    \/ Tick
    \/ \E id \in TaskIds : TimerFire(id)
    \/ \E task \in executing, outcome \in ScheduledOutcomes : ExecutionEnds(task, outcome)

SchedSpec == Init /\ [][SchedNext]_vars

\* The live set under the creation of tasks and the membership updates of the
\* bot (what timers do afterwards is SchedSpec's).
CreateCall ==
    \E c \in Chats, u \in Users, args \in ScheduleArgs :
        /\ Dispatch(c, u, "schedule_task", args)
        /\ UNCHANGED <<turnVars, proc>>

TeardownNext ==
    \/ CreateCall
    \/ \E c \in Chats, oldStatus, newStatus \in Statuses :
          MyChatMember(c, oldStatus, newStatus)
    \/ ResultTaken

TeardownSpec == Init /\ [][TeardownNext]_vars

\* ------------------------------------------------------ configuration steps
\* The values a configuration field is given: omitted, null, or a string.
ConfigStrings == {"pt"}
ConfigGiven == {Undefined, NullV} \cup ConfigStrings
ConfigArgs ==
    {[NoArgs EXCEPT !.custom_prompt = p, !.language = l, !.personality = q] :
        p \in ConfigGiven, l \in ConfigGiven, q \in ConfigGiven}
ConfigCalls ==
    ({"set_config"} \X ConfigArgs) \cup ({"reset_config", "get_config"} \X {NoArgs})

ConfigToolCall ==
    \E c \in Chats, u \in Users, call \in ConfigCalls :
        /\ Dispatch(c, u, call[1], call[2])
        /\ UNCHANGED <<turnVars, proc>>

ConfigNext ==
    \/ ConfigToolCall
    \/ ResultTaken

ConfigSpec == Init /\ [][ConfigNext]_vars

\* -------------------------------------------------------------- notes steps
\* The keys the model gives: spellings of one category, another category, the
\* empty string and blanks.
NoteKeys == {"shop", " Shop ", "SHOP", "todo", "", "  "}
Contents == {"eggs", "milk"}
NoteIdArgs == 0..MaxNotes
NoteArgs ==
    {[NoArgs EXCEPT !.key = k, !.content = t] : k \in NoteKeys, t \in Contents}
KeyArgs == {[NoArgs EXCEPT !.key = k] : k \in NoteKeys \cup {Undefined}}
NoteIdArgsOf == {[NoArgs EXCEPT !.note_id = i] : i \in NoteIdArgs}
NoteCalls ==
    ({"add_note"} \X NoteArgs) \cup ({"list_notes", "clear_notes"} \X KeyArgs)
    \cup ({"remove_note"} \X NoteIdArgsOf)

NotesToolCall ==
    \E c \in Chats, u \in Users, call \in NoteCalls :
        /\ Dispatch(c, u, call[1], call[2])
        /\ UNCHANGED <<turnVars, proc>>

NotesNext ==
    \/ NotesToolCall
    \/ ResultTaken

NotesSpec == Init /\ [][NotesNext]_vars

\* ------------------------------------------------- the Decision Loop (llm.ts)
\* The calls the model answers with: a function call that succeeds, one whose
\* arguments are no JSON, one whose handler meets a missing key, and
\* capability-server sendMessage calls with and without parsable arguments.
ArgsSetLanguage == "{\"language\":\"pt\"}"
ArgsNoKey == "{\"content\":\"milk\"}"
ArgsText == "{\"text\":\"hi\"}"
ArgsEmpty == "{}"
ArgsBad == "{\"text\":"
ArgsYo == "{\"text\":\"yo\"}"
ArgsNull == "null"

CallKinds ==
    { [type |-> "function_call", name |-> "set_config", arguments |-> ArgsSetLanguage],
      [type |-> "function_call", name |-> "list_tasks", arguments |-> ArgsBad],
      [type |-> "function_call", name |-> "add_note", arguments |-> ArgsNoKey],
      [type |-> "mcp_call", name |-> "sendMessage", arguments |-> ArgsText],
      [type |-> "mcp_call", name |-> "sendMessage", arguments |-> ArgsBad] }

\* JSON.parse(call.arguments): the object, null, or a SyntaxError.
JsonParse(text) ==
    CASE text = ArgsEmpty -> [ok |-> TRUE, isNull |-> FALSE, value |-> NoArgs]
      [] text = ArgsSetLanguage -> [ok |-> TRUE, isNull |-> FALSE, value |-> [NoArgs EXCEPT !.language = "pt"]]
      [] text = ArgsNoKey -> [ok |-> TRUE, isNull |-> FALSE, value |-> [NoArgs EXCEPT !.content = "milk"]]
      [] text = ArgsText -> [ok |-> TRUE, isNull |-> FALSE, value |-> [NoArgs EXCEPT !.text = "hi"]]
      [] text = ArgsYo -> [ok |-> TRUE, isNull |-> FALSE, value |-> [NoArgs EXCEPT !.text = "yo"]]
      [] text = ArgsNull -> [ok |-> TRUE, isNull |-> TRUE, value |-> NoArgs]
      [] OTHER -> [ok |-> FALSE, isNull |-> FALSE, value |-> NoArgs]

\* The responses provider.complete can return: up to MaxCalls tool calls, each
\* with the id of its place in the response, with or without text.
ToolCallListsOf(kinds) ==
    UNION { { [i \in 1..n |-> [id |-> i, type |-> f[i].type, name |-> f[i].name,
                               arguments |-> f[i].arguments]] : f \in [1..n -> kinds] } :
            n \in 0..MaxCalls }
ToolCallLists == ToolCallListsOf(CallKinds)
Responses == [toolCalls : ToolCallLists, hasText : BOOLEAN]

IsFunctionCall(tc) == tc.type = "function_call"
IsSendMessage(tc) == tc.type = "mcp_call" /\ tc.name = "sendMessage"

\* response.toolCalls.filter((tc) => tc.type === "function_call")
FunctionCalls(r) == SelectSeq(r.toolCalls, IsFunctionCall)

\* response.toolCalls.filter(mcp_call named sendMessage)
SendMessages(r) == SelectSeq(r.toolCalls, IsSendMessage)

\* getUserName(ctx) of the message the turn answers.
UserOf(c) == "ann"

\* addMessageToSession: the entry appended, the oldest entries dropped beyond
\* MAX_CONTEXT_MESSAGES.
AddMessageToSession(messages, role, name, content) ==
    LET all == Append(messages, [role |-> role, name |-> name, content |-> content])
    IN  IF Len(all) > MAX_CONTEXT_MESSAGES
        THEN SubSeq(all, Len(all) - MAX_CONTEXT_MESSAGES + 1, Len(all))
        ELSE all

\* The try block of llm.ts:194-201 runs to its end: JSON.parse returns, and
\* args.text is read of a value that is not null (reading a property of null
\* throws a TypeError, caught like the SyntaxError of the parse).
TryRecords(tc) ==
    LET parsed == JsonParse(tc.arguments)
    IN  parsed.ok /\ ~parsed.isNull

\* args.text ?? ""
TextOf(tc) ==
    LET value == JsonParse(tc.arguments).value
    IN  IF value.text = Undefined THEN "" ELSE value.text

\* Faulty variant: the loop left at the first call that fails.
RECURSIVE RecordSent_StopsAtFailure(_, _)
RecordSent_StopsAtFailure(messages, calls) ==
    IF calls = <<>> THEN messages
    ELSE IF TryRecords(Head(calls))
         THEN RecordSent_StopsAtFailure(
                  AddMessageToSession(messages, "assistant", "Bot", TextOf(Head(calls))),
                  Tail(calls))
         ELSE messages

\* The loop of llm.ts:193-205 over sendMessages: an entry for each call whose
\* try block runs to its end, the others skipped.
RECURSIVE RecordSent(_, _)
RecordSent(messages, calls) ==
    IF calls = <<>> THEN messages
    ELSE RecordSent(IF TryRecords(Head(calls))
                    THEN AddMessageToSession(messages, "assistant", "Bot", TextOf(Head(calls)))
                    ELSE messages,
                    Tail(calls))

Parsable(calls) == SelectSeq(calls, LAMBDA tc : JsonParse(tc.arguments).ok)
Recorded(calls) == SelectSeq(calls, TryRecords)

\* Faulty variant: every tool call of the response counted as a function call.
HasFunctionCalls_AnyToolCall(r) == Len(r.toolCalls) > 0
\* functionCalls.length > 0 (llm.ts:144)
HasFunctionCalls(r) == Len(FunctionCalls(r)) > 0

\* Faulty variant: the budget test one call too generous.
WithinBudget_OneMore(n) == n <= MAX_TOOL_CALLS + 1
\* numToolsCalled <= MAX_TOOL_CALLS (llm.ts:174)
WithinBudget(n) == n <= MAX_TOOL_CALLS

\* Faulty variant: the handler called without await while calls are left.
AfterHandlerCalled_NoAwait(left) == IF left > 0 THEN "dispatching" ELSE "awaiting"
\* Where the loop goes once a handler was called: it awaits the result before
\* it looks at the next call (llm.ts:151).
AfterHandlerCalled(left) == "awaiting"

\* decideAndAct entered for a message of chat c (llm.ts:115-134).  The loop
\* is followed for one turn, from its entry to its return or its exception.
DecideAndAct(c) ==
    /\ pc = "idle"
    /\ ret = NoRet
    /\ pc' = "deciding"
    /\ turnChat' = c
    /\ numToolsCalled' = 0
    /\ numCompletes' = 0
    /\ response' = NoResponse
    /\ callIdx' = 0
    /\ toolResults' = <<>>
    /\ inFlight' = {}
    /\ obs' = NoObs
    /\ UNCHANGED <<sessions, noteSeq, ret>>
    /\ UNCHANGED <<schedVars, proc>>

\* provider.complete returns r (llm.ts:137-144): to Dispatching when r holds a
\* function call, to Finalizing otherwise.
ProviderReturns(r) ==
    /\ pc = "deciding"
    /\ numCompletes' = numCompletes + 1
    /\ response' = r
    /\ IF HasFunctionCalls(r)
       THEN /\ pc' = "dispatching"
            /\ callIdx' = 1
            /\ toolResults' = <<>>
            /\ obs' = [obs EXCEPT !.returned = @ + Len(FunctionCalls(r)), !.cycles = @ + 1]
       ELSE /\ pc' = "finalizing"
            /\ UNCHANGED <<callIdx, toolResults, obs>>
    /\ UNCHANGED <<turnChat, numToolsCalled, inFlight, sessions, noteSeq, ret>>
    /\ UNCHANGED <<schedVars, proc>>

\* Faulty variant: the failed provider call tried again.
ProviderFails_Retry ==
    /\ pc = "deciding"
    /\ numCompletes' = numCompletes + 1
    /\ obs' = [obs EXCEPT !.fault = "provider"]
    /\ UNCHANGED <<pc, turnChat, numToolsCalled, response, callIdx, toolResults, inFlight,
                   sessions, noteSeq, ret>>
    /\ UNCHANGED <<schedVars, proc>>

\* provider.complete throws: the error leaves decideAndAct.
ProviderFails ==
    /\ pc = "deciding"
    /\ numCompletes' = numCompletes + 1
    /\ pc' = "aborted"
    /\ obs' = [obs EXCEPT !.fault = "provider"]
    /\ UNCHANGED <<turnChat, numToolsCalled, response, callIdx, toolResults, inFlight,
                   sessions, noteSeq, ret>>
    /\ UNCHANGED <<schedVars, proc>>

\* One pass of the for loop up to the call of the handler (llm.ts:148-156):
\* the counter, JSON.parse of the arguments, handleToolCall.
CallHandler ==
    /\ pc = "dispatching"
    /\ callIdx <= Len(FunctionCalls(response))
    /\ LET call == FunctionCalls(response)[callIdx]
           parsed == JsonParse(call.arguments)
           o == HandleToolCall(call.name, parsed.value, turnChat, UserOf(turnChat),
                               scheduledTasks, timers, now, RandomUUID(uuid),
                               sessions[turnChat], noteSeq + 1)
       IN  /\ numToolsCalled' = numToolsCalled + 1
           /\ IF ~parsed.ok
              THEN /\ pc' = "aborted"
                   /\ obs' = [obs EXCEPT !.fault = "parse"]
                   /\ UNCHANGED <<callIdx, inFlight, ret, sessions, noteSeq,
                                  scheduledTasks, timers, uuid>>
              ELSE /\ pc' = AfterHandlerCalled(Len(FunctionCalls(response)) - callIdx)
                   /\ callIdx' = callIdx + 1
                   /\ inFlight' = inFlight \cup {call.id}
                   /\ ret' = Ret(o.threw, o.out)
                   /\ obs' = [obs EXCEPT !.dispatched = @ + 1]
                   /\ scheduledTasks' = o.tasks
                   /\ timers' = o.timers
                   /\ sessions' = [sessions EXCEPT ![turnChat] = o.session]
                   /\ uuid' = IF call.name = "schedule_task" THEN uuid + 1 ELSE uuid
                   /\ noteSeq' = IF call.name = "add_note" /\ ~o.threw
                                 THEN noteSeq + 1 ELSE noteSeq
    /\ UNCHANGED <<turnChat, numCompletes, response, toolResults, now, executing, proc>>

\* The awaited handler settled (llm.ts:151-163): its result is pushed, or its
\* exception leaves decideAndAct.
HandlerSettles ==
    /\ pc = "awaiting"
    /\ inFlight # {}
    /\ LET id == CHOOSE i \in inFlight : \A j \in inFlight : i <= j
       IN  IF ret.threw
           THEN /\ pc' = "aborted"
                /\ obs' = [obs EXCEPT !.fault = "handler"]
                /\ inFlight' = inFlight \ {id}
                /\ UNCHANGED toolResults
           ELSE /\ toolResults' = Append(toolResults, [callId |-> id, result |-> ret.out])
                /\ inFlight' = inFlight \ {id}
                /\ pc' = IF callIdx > Len(FunctionCalls(response))
                         THEN "building" ELSE "dispatching"
                /\ UNCHANGED obs
    /\ ret' = NoRet
    /\ UNCHANGED <<turnChat, numToolsCalled, numCompletes, response, callIdx,
                   sessions, noteSeq>>
    /\ UNCHANGED <<schedVars, proc>>

\* Faulty variant: the sendMessage calls of the response recorded before the
\* model is asked again.
BuildNextInput_RecordsSends ==
    /\ pc = "building"
    /\ IF WithinBudget(numToolsCalled)
       THEN pc' = "deciding" /\ UNCHANGED obs
       ELSE pc' = "finalizing" /\ obs' = [obs EXCEPT !.warned = TRUE]
    /\ sessions' = [sessions EXCEPT
                       ![turnChat].messages = RecordSent(@, SendMessages(response))]
    /\ UNCHANGED <<turnChat, numToolsCalled, numCompletes, response, callIdx,
                   toolResults, inFlight, noteSeq, ret>>
    /\ UNCHANGED <<schedVars, proc>>

\* provider.buildNextInput and the budget test (llm.ts:167-180).
BuildNextInput ==
    /\ pc = "building"
    /\ IF WithinBudget(numToolsCalled)
       THEN pc' = "deciding" /\ UNCHANGED obs
       ELSE pc' = "finalizing" /\ obs' = [obs EXCEPT !.warned = TRUE]
    /\ UNCHANGED <<turnChat, numToolsCalled, numCompletes, response, callIdx,
                   toolResults, inFlight, sessions, noteSeq, ret>>
    /\ UNCHANGED <<schedVars, proc>>

\* Finalizing (llm.ts:183-207): the sendMessage calls of the response are
\* recorded in the history, and decideAndAct returns.
Finalize ==
    /\ pc = "finalizing"
    /\ pc' = "done"
    /\ sessions' = [sessions EXCEPT
                       ![turnChat].messages = RecordSent(@, SendMessages(response))]
    /\ obs' = [obs EXCEPT !.recorded = Len(Recorded(SendMessages(response)))]
    /\ UNCHANGED <<turnChat, numToolsCalled, numCompletes, response, callIdx,
                   toolResults, inFlight, noteSeq, ret>>
    /\ UNCHANGED <<schedVars, proc>>

TurnStep ==
    \/ \E r \in Responses : ProviderReturns(r)
    \/ ProviderFails
    \/ CallHandler
    \/ HandlerSettles
    \/ BuildNextInput
    \/ Finalize

LoopNext ==
    \/ \E c \in Chats : DecideAndAct(c)
    \/ TurnStep

LoopSpec == Init /\ [][LoopNext]_vars

\* The terminating responses: capability-server calls only, of every shape of
\* arguments, sendMessage or not.
FinalKinds ==
    { [type |-> "mcp_call", name |-> "sendMessage", arguments |-> ArgsText],
      [type |-> "mcp_call", name |-> "sendMessage", arguments |-> ArgsYo],
      [type |-> "mcp_call", name |-> "sendMessage", arguments |-> ArgsEmpty],
      [type |-> "mcp_call", name |-> "sendMessage", arguments |-> ArgsBad],
      [type |-> "mcp_call", name |-> "sendMessage", arguments |-> ArgsNull],
      [type |-> "mcp_call", name |-> "getChat", arguments |-> ArgsText] }
FinalResponses == [toolCalls : ToolCallListsOf(FinalKinds), hasText : BOOLEAN]

\* A turn whose first response is terminating.
FinalNext ==
    \/ \E c \in Chats : DecideAndAct(c)
    \/ \E r \in FinalResponses : ProviderReturns(r)
    \/ Finalize

FinalSpec == Init /\ [][FinalNext]_vars

\* ------------------------------------------- the message handlers (handlers.ts)
\* ctx.me.username, and the message texts as the characters they are made of:
\* no mention, a mention of the bot, a mention of the account jbx, and the
\* address of a mail box.
MeUsername == <<"j", "b">>
Texts == {"hi", "hi @jb", "@jbx hi", "a@jb.io"}
CharsOf(text) ==
    CASE text = "hi" -> <<"h", "i">>
      [] text = "hi @jb" -> <<"h", "i", " ", "@", "j", "b">>
      [] text = "@jbx hi" -> <<"@", "j", "b", "x", " ", "h", "i">>
      [] text = "a@jb.io" -> <<"a", "@", "j", "b", ".", "i", "o">>

\* String.prototype.includes
Includes(chars, part) ==
    \E i \in 1..(Len(chars) - Len(part) + 1) : SubSeq(chars, i, i + Len(part) - 1) = part

ChatTypes == {"private", "group", "supergroup"}
\* The author of the message a reply answers.
Authors ==
    { [is_bot |-> TRUE, username |-> MeUsername],
      [is_bot |-> TRUE, username |-> <<"o", "b">>],
      [is_bot |-> FALSE, username |-> <<"u">>] }
Messages ==
    [kind : {"text", "photo"}, chatType : ChatTypes, fromBot : BOOLEAN, text : Texts,
     hasReply : BOOLEAN, replyFrom : Authors, downloads : BOOLEAN]

\* Faulty variant: supergroups not taken for groups.
IsGroup_GroupOnly(chatType) == chatType = "group"

IsGroup(chatType) == chatType = "group" \/ chatType = "supergroup"

WasMentioned(m) == Includes(CharsOf(m.text), <<"@">> \o MeUsername)

IsReplyToBot(m) ==
    IF ~m.hasReply \/ ~m.replyFrom.is_bot THEN FALSE
    ELSE m.replyFrom.username = MeUsername

\* The two early returns of the handlers.
Dropped(m) ==
    \/ m.fromBot
    \/ IsGroup(m.chatType) /\ ~WasMentioned(m) /\ ~IsReplyToBot(m)

\* bot.on("message:text") and bot.on("message:photo") up to the call of
\* decideAndAct: the early returns, the download of the photo, the user's
\* message (the text, or the caption of the photo) stored in the session, and
\* the turn started.
MessageArrives(c, m) ==
    /\ pc = "idle"
    /\ ret = NoRet
    /\ IF Dropped(m)
       THEN /\ ret' = Ret(FALSE, Json({"message"}, "absent", "", <<c, m>>))
            /\ UNCHANGED <<pc, turnChat, numToolsCalled, numCompletes, response, callIdx,
                           toolResults, inFlight, obs, sessions>>
       ELSE IF m.kind = "photo" /\ ~m.downloads
       THEN /\ pc' = "download_failed"
            /\ turnChat' = c
            /\ obs' = [NoObs EXCEPT !.chatType = m.chatType]
            /\ UNCHANGED <<numToolsCalled, numCompletes, response, callIdx, toolResults,
                           inFlight, sessions, ret>>
       ELSE /\ pc' = "deciding"
            /\ turnChat' = c
            /\ numToolsCalled' = 0
            /\ numCompletes' = 0
            /\ response' = NoResponse
            /\ callIdx' = 0
            /\ toolResults' = <<>>
            /\ inFlight' = {}
            /\ obs' = [NoObs EXCEPT !.chatType = m.chatType]
            /\ sessions' = [sessions EXCEPT ![c].messages =
                               AddMessageToSession(@, "user", UserOf(c), m.text)]
            /\ ret' = ret
    /\ UNCHANGED noteSeq
    /\ UNCHANGED <<schedVars, proc>>

\* Faulty variant: the fallback awaited without its catch.
CatchBlock_Unguarded(sends) ==
    /\ pc \in {"aborted", "download_failed"}
    /\ pc' = "handled"
    /\ obs' = IF IsGroup(obs.chatType) THEN obs
              ELSE [obs EXCEPT !.fallbacks = @ + 1, !.raised = ~sends]
    /\ UNCHANGED <<turnChat, numToolsCalled, numCompletes, response, callIdx, toolResults,
                   inFlight, sessions, noteSeq, ret>>
    /\ UNCHANGED <<schedVars, proc>>

\* The catch block of the handlers: outside groups one sendMessage, whose
\* rejection is caught (sends tells whether the platform accepts it).
CatchBlock(sends) ==
    /\ pc \in {"aborted", "download_failed"}
    /\ pc' = "handled"
    /\ obs' = IF IsGroup(obs.chatType) THEN obs
              ELSE [obs EXCEPT !.fallbacks = @ + 1]
    /\ UNCHANGED <<turnChat, numToolsCalled, numCompletes, response, callIdx, toolResults,
                   inFlight, sessions, noteSeq, ret>>
    /\ UNCHANGED <<schedVars, proc>>

\* The responses of the turns the handlers start: at most one tool call.
HandlerResponses == {r \in Responses : Len(r.toolCalls) <= 1}

HandlerNext ==
    \/ \E c \in Chats, m \in Messages : MessageArrives(c, m)
    \/ ResultTaken
    \/ \E r \in HandlerResponses : ProviderReturns(r)
    \/ ProviderFails
    \/ CallHandler
    \/ HandlerSettles
    \/ BuildNextInput
    \/ Finalize
    \/ \E sends \in BOOLEAN : CatchBlock(sends)

HandlerSpec == Init /\ [][HandlerNext]_vars

\* ------------------------------------------ the provider adapters (part_004)
\* A string of the program, by what JSON.parse makes of it: the literal it
\* starts with (none for a text JSON.stringify wrote), then plain text or a
\* JSON object with one key and its value.  The content of a user turn may be
\* an array of an input_text and an input_image part instead: image is the
\* URL of the latter, "" for a string.
Str(prefix, key, plain, value, image) ==
    [prefix |-> prefix, key |-> key, plain |-> plain, value |-> value, image |-> image]
Plain(text) == Str("", "", text, <<>>, "")
NoStr == Plain("")

GeminiKey == "__gemini_contents"

\* JSON.stringify({ __gemini_contents: contents })
JsonStringify(key, value) == Str("", key, "", value, "")

\* JSON.parse(content): the object, or a SyntaxError for a text that is no
\* JSON document and for an array, which is parsed as "[object Object],...".
JsonParseStr(s) ==
    [ok |-> s.image = "" /\ s.prefix = "" /\ s.key # "", key |-> s.key, value |-> s.value]

\* The Part and Content values of the Gemini SDK.
Part(kind, text, name, args, resp) ==
    [kind |-> kind, text |-> text, name |-> name, args |-> args, response |-> resp]
TextPart(s) == Part("text", s, "", "", NoOut)
FileDataPart(uri) == Part("fileData", NoStr, uri, "image/jpeg", NoOut)
FunctionCallPart(name, args) == Part("functionCall", NoStr, name, args, NoOut)
FunctionResponsePart(name, resp) == Part("functionResponse", NoStr, name, "", resp)
Content(role, parts) == [role |-> role, parts |-> parts]

\* The items of an input: role messages, the output items of the OpenAI
\* Responses API and the function_call_output items.
Message(role, content) ==
    [role |-> role, type |-> "message", content |-> content, call_id |-> 0,
     name |-> "", arguments |-> "", output |-> NoOut]
OutputItem(tc) ==
    [role |-> Undefined, type |-> tc.type, content |-> NoStr, call_id |-> tc.id,
     name |-> tc.name, arguments |-> tc.arguments, output |-> NoOut]
FunctionCallOutput(callId, result) ==
    [role |-> Undefined, type |-> "function_call_output", content |-> NoStr,
     call_id |-> callId, name |-> "", arguments |-> "", output |-> result]

\* response.rawOutput of the OpenAI adapter: response.output, the items the
\* tool calls were parsed from and the message item of the text.
RawOutput(r) ==
    [i \in 1..Len(r.toolCalls) |-> OutputItem(r.toolCalls[i])]
    \o (IF r.hasText THEN <<Message("assistant", Plain("ok"))>> ELSE <<>>)

\* OpenAIProvider.convertInput: the input as it is.
OpenAIConvertInput(input) == input

\* Faulty variant: the output items of the model left out of the next input.
OpenAIBuildNextInput_NoRawOutput(currentInput, r, results) ==
    OpenAIConvertInput(currentInput)
    \o [i \in 1..Len(results) |-> FunctionCallOutput(results[i].callId, results[i].result)]

\* OpenAIProvider.buildNextInput: the input, the raw output items of the
\* response, and one function_call_output item per tool result.
OpenAIBuildNextInput(currentInput, r, results) ==
    OpenAIConvertInput(currentInput)
    \o RawOutput(r)
    \o [i \in 1..Len(results) |-> FunctionCallOutput(results[i].callId, results[i].result)]

\* The normal conversion of GeminiProvider.convertInput: the last system
\* message is the system instruction, user and assistant messages are
\* contents, anything else is skipped.
GeminiConvertMessages(input) ==
    LET systems == SelectSeq(input, LAMBDA item : item.role = "system")
        turns == SelectSeq(input, LAMBDA item : item.role \in {"user", "assistant"})
        parts(item) ==
            IF item.role = "assistant" THEN <<TextPart(item.content)>>
            ELSE IF item.content.image = "" THEN <<TextPart(item.content)>>
            ELSE <<TextPart([item.content EXCEPT !.image = ""]),
                   FileDataPart(item.content.image)>>
    IN  [systemInstruction |-> IF systems = <<>> THEN Undefined
                               ELSE systems[Len(systems)].content.plain,
         contents |-> [i \in 1..Len(turns) |->
                          Content(IF turns[i].role = "assistant" THEN "model" ELSE "user",
                                  parts(turns[i]))]]

\* The test of GeminiProvider.convertInput for the form buildNextInput
\* returns: two items, the second a user message whose content parses to an
\* object with a __gemini_contents value.
GeminiPacked(input) ==
    /\ Len(input) = 2
    /\ input[2].role = "user"
    /\ JsonParseStr(input[2].content).ok
    /\ JsonParseStr(input[2].content).key = GeminiKey

\* Faulty variant: the packed form is not looked for.
GeminiConvertInput_NoUnpacking(input) == GeminiConvertMessages(input)

\* GeminiProvider.convertInput: the system instruction and the contents of an
\* input.
GeminiConvertInput(input) ==
    IF GeminiPacked(input)
    THEN [systemInstruction |-> IF input[1].content.plain # ""
                                THEN input[1].content.plain ELSE Undefined,
          contents |-> JsonParseStr(input[2].content).value]
    ELSE GeminiConvertMessages(input)

\* response.toolCalls.find((tc) => tc.id === callId)
OriginalCall(r, callId) ==
    LET at == {i \in 1..Len(r.toolCalls) : r.toolCalls[i].id = callId}
    IN  IF at = {} THEN [id |-> 0, type |-> Undefined, name |-> "", arguments |-> ""]
        ELSE r.toolCalls[CHOOSE i \in at : \A j \in at : i <= j]

\* GeminiProvider.buildNextInput up to its return: the converted input, a
\* model turn of the function calls of the response, and a user turn of the
\* function responses, each under the name of the call of its callId.
GeminiNextContents(currentInput, r, results) ==
    LET conv == GeminiConvertInput(currentInput)
        calls == SelectSeq(r.toolCalls, IsFunctionCall)
        functionCallParts ==
            [i \in 1..Len(calls) |-> FunctionCallPart(calls[i].name, calls[i].arguments)]
        answered == SelectSeq(results,
                              LAMBDA tr : OriginalCall(r, tr.callId).type = "function_call")
        functionResponseParts ==
            [i \in 1..Len(answered) |->
                FunctionResponsePart(OriginalCall(r, answered[i].callId).name,
                                     answered[i].result)]
        withCalls == IF Len(functionCallParts) > 0
                     THEN Append(conv.contents, Content("model", functionCallParts))
                     ELSE conv.contents
    IN  [systemInstruction |-> conv.systemInstruction,
         contents |-> IF Len(functionResponseParts) > 0
                      THEN Append(withCalls, Content("user", functionResponseParts))
                      ELSE withCalls]

\* The return of GeminiProvider.buildNextInput: the system instruction and
\* the contents packed as a system and a user message.
GeminiPack(next) ==
    << Message("system", Plain(IF next.systemInstruction = Undefined THEN ""
                               ELSE next.systemInstruction)),
       Message("user", JsonStringify(GeminiKey, next.contents)) >>

GeminiBuildNextInput(currentInput, r, results) ==
    GeminiPack(GeminiNextContents(currentInput, r, results))

\* provider.buildNextInput of the configured provider (llm.ts:167-171).
ProviderBuildNextInput(kind, currentInput, r, results) ==
    IF kind = "gemini" THEN GeminiBuildNextInput(currentInput, r, results)
    ELSE OpenAIBuildNextInput(currentInput, r, results)

\* The text of a message: plain, or itself the text of a packed input.
SystemPrompt == "sys"
UserTexts ==
    {Plain("hi"),
     JsonStringify(GeminiKey, <<Content("user", <<TextPart(Plain("hi"))>>)>>)}
ImageUrls == {"", "url"}

\* buildUserInput: the text of the message after the chat_id= line and the
\* lines that follow it, alone or with the image.
BuildUserInput(text, imageUrl) == [text EXCEPT !.prefix = "chat_id=", !.image = imageUrl]

\* The first input of decideAndAct (llm.ts:124-127).
FirstInput(text, imageUrl) ==
    << Message("system", Plain(SystemPrompt)),
       Message("user", BuildUserInput(text, imageUrl)) >>

\* currentInput of decideAndAct, kept in ret: the first input, then what
\* buildNextInput returned.
InputHeld(input) == Ret(FALSE, Json({"input"}, "absent", "", input))
CurrentInput == ret.out.data

\* The provider kinds a running process is configured with.
InputEnvs ==
    {[DefaultEnv EXCEPT !.LLM_PROVIDER = kind, !.OPENAI_API_KEY = "k", !.GEMINI_API_KEY = "k"] :
        kind \in {"openai", "gemini"}}
ProviderKind == proc.instances[proc.llm].kind

\* The responses with function calls: the Gemini adapter parses function calls
\* only, the OpenAI adapter capability-server calls too.
InputResponses(kind) ==
    LET A(i) == [id |-> i, type |-> "function_call", name |-> "set_config",
                 arguments |-> ArgsSetLanguage]
        B(i) == [id |-> i, type |-> "function_call", name |-> "list_tasks",
                 arguments |-> ArgsEmpty]
        M(i) == [id |-> i, type |-> "mcp_call", name |-> "sendMessage",
                 arguments |-> ArgsText]
    IN  {[toolCalls |-> <<A(1)>>, hasText |-> FALSE],
         [toolCalls |-> <<B(1), A(2)>>, hasText |-> TRUE]}
        \cup (IF kind = "gemini" THEN {}
              ELSE {[toolCalls |-> <<M(1), B(2)>>, hasText |-> FALSE]})

\* The for loop of a Dispatching cycle (llm.ts:147-164) over calls from the
\* i-th on: the session after the handlers and the results pushed.
RECURSIVE DispatchAll(_, _, _, _, _)
DispatchAll(calls, i, c, session, results) ==
    IF i > Len(calls) THEN [session |-> session, results |-> results]
    ELSE LET o == HandleToolCall(calls[i].name, JsonParse(calls[i].arguments).value,
                                 c, UserOf(c), scheduledTasks, timers, now,
                                 RandomUUID(uuid), session, noteSeq + 1)
         IN  DispatchAll(calls, i + 1, c, o.session,
                         Append(results, [callId |-> calls[i].id, result |-> o.out]))

InputInit == \E env \in InputEnvs : InitWith(Loaded(env))

\* decideAndAct entered (llm.ts:115-134) with the first input built.
InputBuilt(c, text, imageUrl) ==
    /\ pc = "idle"
    /\ ret = NoRet
    /\ pc' = "deciding"
    /\ turnChat' = c
    /\ numToolsCalled' = 0
    /\ numCompletes' = 0
    /\ response' = NoResponse
    /\ callIdx' = 0
    /\ toolResults' = <<>>
    /\ inFlight' = {}
    /\ obs' = NoObs
    /\ ret' = InputHeld(FirstInput(text, imageUrl))
    /\ UNCHANGED <<sessions, noteSeq>>
    /\ UNCHANGED <<schedVars, proc>>

\* One Dispatching cycle (llm.ts:137-180): the provider returns r, its function
\* calls are dispatched in order, the next input is built and the budget is
\* tested.
DispatchingCycle(r) ==
    LET calls == FunctionCalls(r)
        done == DispatchAll(calls, 1, turnChat, sessions[turnChat], <<>>)
    IN  /\ pc = "deciding"
        /\ ret # NoRet
        /\ numCompletes' = numCompletes + 1
        /\ response' = r
        /\ callIdx' = Len(calls) + 1
        /\ numToolsCalled' = numToolsCalled + Len(calls)
        /\ toolResults' = done.results
        /\ sessions' = [sessions EXCEPT ![turnChat] = done.session]
        /\ ret' = InputHeld(ProviderBuildNextInput(ProviderKind, CurrentInput, r,
                                                   done.results))
        /\ pc' = IF WithinBudget(numToolsCalled') THEN "deciding" ELSE "finalizing"
        /\ obs' = [obs EXCEPT !.returned = @ + Len(calls), !.dispatched = @ + Len(calls),
                              !.cycles = @ + 1,
                              !.warned = ~WithinBudget(numToolsCalled')]
        /\ UNCHANGED <<turnChat, inFlight, noteSeq>>
        /\ UNCHANGED <<schedVars, proc>>

InputNext ==
    \/ \E c \in Chats, text \in UserTexts, imageUrl \in ImageUrls : InputBuilt(c, text, imageUrl)
    \/ \E r \in InputResponses(ProviderKind) : DispatchingCycle(r)

InputSpec == InputInit /\ [][InputNext]_vars

\* ----------------------------------------- provider.complete (part_004)
\* The catalog (tools, part_005:12-204): the capability server, web search,
\* and the function tools with their required parameters.
Required(name) ==
    CASE name = "schedule_task" -> {"prompt", "schedule", "recurring"}
      [] name = "cancel_task" -> {"task_id"}
      [] name = "add_note" -> {"key", "content"}
      [] name = "remove_note" -> {"note_id"}
      [] OTHER -> {}

Tool(type, name, required) == [type |-> type, name |-> name, required |-> required]

ToolDefinitions ==
    {Tool("mcp", "telegram-mcp", {}), Tool("web_search", "", {})}
    \cup {Tool("function", name, Required(name)) : name \in ToolNames}

\* OpenAIProvider.convertTools: every tool, under its own type.
OpenAIConvertTools(tools) == tools

\* convertJsonSchemaToGemini, the required field: kept when it is there, an
\* empty array included.
ConvertJsonSchemaToGemini(required) == required

\* Faulty variant: the capability server declared to the Gemini backend.
GeminiConvertTools_OffersMcp(tools) ==
    {Tool("functionDeclarations", t.name, ConvertJsonSchemaToGemini(t.required)) :
        t \in {u \in tools : u.type = "function"}}
    \cup {Tool("googleSearch", "", {}) : t \in {u \in tools : u.type = "web_search"}}
    \cup {u \in tools : u.type = "mcp"}

\* GeminiProvider.convertTools: a function declaration per function tool,
\* googleSearch for web search, and nothing (a warning) for a capability
\* server.
GeminiConvertTools(tools) ==
    {Tool("functionDeclarations", t.name, ConvertJsonSchemaToGemini(t.required)) :
        t \in {u \in tools : u.type = "function"}}
    \cup {Tool("googleSearch", "", {}) : t \in {u \in tools : u.type = "web_search"}}

ConvertTools(kind, tools) ==
    IF kind = "gemini" THEN GeminiConvertTools(tools) ELSE OpenAIConvertTools(tools)

\* What a backend answers: for Gemini the parts of the first candidate, with
\* or without the helper getters of the SDK (response.text and
\* response.functionCalls, which read the same parts); for OpenAI the output
\* items.  Each holds up to MaxCalls items.
BackendItem(type, name, arguments) == [type |-> type, name |-> name, arguments |-> arguments]
BackendText == BackendItem("text", "", "")
GeminiPartKinds ==
    {BackendText,
     BackendItem("functionCall", "set_config", ArgsSetLanguage),
     BackendItem("functionCall", "list_tasks", ArgsEmpty)}
OpenAIItemKinds ==
    {BackendItem("message", "", ""),
     BackendItem("function_call", "set_config", ArgsSetLanguage),
     BackendItem("function_call", "list_tasks", ArgsEmpty),
     BackendItem("mcp_call", "sendMessage", ArgsText)}
ItemLists(kinds) == UNION {[1..n -> kinds] : n \in 0..MaxCalls}
Backends(kind) ==
    IF kind = "gemini"
    THEN [helper : BOOLEAN, items : ItemLists(GeminiPartKinds)]
    ELSE [helper : {FALSE}, items : ItemLists(OpenAIItemKinds)]

\* The canonical tool calls of the items, numbered as they are pushed.
ToolCallsOf(items, type(_)) ==
    [i \in 1..Len(items) |-> [id |-> i, type |-> type(items[i]), name |-> items[i].name,
                              arguments |-> items[i].arguments]]

\* GeminiProvider.parseResponse: the function calls of the helper; without
\* them, the first functionCall part of the candidate.
GeminiParseResponse(b) ==
    LET calls == SelectSeq(b.items, LAMBDA part : part.type = "functionCall")
        viaHelper == IF b.helper THEN calls ELSE <<>>
        captured == IF viaHelper # <<>> THEN viaHelper
                    ELSE IF calls # <<>> THEN <<calls[1]>> ELSE <<>>
    IN  [toolCalls |-> ToolCallsOf(captured, LAMBDA part : "function_call"),
         hasText |-> \E i \in 1..Len(b.items) : b.items[i].type = "text"]

\* OpenAIProvider.parseResponse: the function_call and mcp_call items in
\* order, and the text of the message items.
OpenAIParseResponse(b) ==
    LET calls == SelectSeq(b.items, LAMBDA item : item.type \in {"function_call", "mcp_call"})
    IN  [toolCalls |-> ToolCallsOf(calls, LAMBDA item : item.type),
         hasText |-> \E i \in 1..Len(b.items) : b.items[i].type = "message"]

ParseResponse(kind, b) ==
    IF kind = "gemini" THEN GeminiParseResponse(b) ELSE OpenAIParseResponse(b)

\* provider.complete(currentInput, tools) of a turn answered by the backend
\* with b (llm.ts:137): the tools converted, the answer parsed.
ProviderCompletes(b) == ProviderReturns(ParseResponse(ProviderKind, b))

AdapterNext ==
    \/ \E c \in Chats : DecideAndAct(c)
    \/ \E b \in Backends(ProviderKind) : ProviderCompletes(b)
    \/ ProviderFails
    \/ CallHandler
    \/ HandlerSettles
    \/ BuildNextInput
    \/ Finalize

AdapterSpec == InputInit /\ [][AdapterNext]_vars

\* ------------------------------------------------- the history of a turn
\* One turn whose responses mix a function call with sendMessage calls whose
\* arguments are an object, no JSON, or null.
HistoryKinds ==
    { [type |-> "function_call", name |-> "set_config", arguments |-> ArgsSetLanguage],
      [type |-> "mcp_call", name |-> "sendMessage", arguments |-> ArgsText],
      [type |-> "mcp_call", name |-> "sendMessage", arguments |-> ArgsBad],
      [type |-> "mcp_call", name |-> "sendMessage", arguments |-> ArgsNull] }
HistoryResponses == [toolCalls : ToolCallListsOf(HistoryKinds), hasText : BOOLEAN]

HistoryNext ==
    \/ \E c \in Chats : DecideAndAct(c)
    \/ \E r \in HistoryResponses : ProviderReturns(r)
    \/ ProviderFails
    \/ CallHandler
    \/ HandlerSettles
    \/ BuildNextInput
    \/ Finalize

HistorySpec == Init /\ [][HistoryNext]_vars

\* ------------------------------------------- inline queries (handlers.ts)
\* A string by its length: the first len characters of its source (the text
\* of the model, a fixed sentence) followed by dots full stops.
Text(source, len) == [source |-> source, len |-> len, dots |-> 0]
Length(s) == s.len + s.dots
Min(a, b) == IF a < b THEN a ELSE b
\* s.slice(0, k)
Slice(s, k) ==
    [s EXCEPT !.len = Min(k, s.len),
              !.dots = IF k > s.len THEN Min(s.dots, k - s.len) ELSE 0]
\* s + "..."
WithDots(s) == [s EXCEPT !.dots = @ + 3]

MessageLimit == 4000
MessageKept == 3997
DescriptionLimit == 100
DescriptionKept == 97
MinQueryLength == 3
MAX_ITERATIONS == 3
FallbackLength == 61
InlineFallback == Text("fallback", FallbackLength)

\* response.length > limit ? response.slice(0, kept) + "..." : response
\* Faulty variant: the text cut to limit characters before the dots.
Truncate_KeepsLimit(s, limit, kept) ==
    IF Length(s) > limit THEN WithDots(Slice(s, limit)) ELSE s

Truncate(s, limit, kept) ==
    IF Length(s) > limit THEN WithDots(Slice(s, kept)) ELSE s

\* The queries typed, as characters, and String.prototype.trim.
Queries ==
    {<<>>, <<"h", "i">>, <<" ", "h", "i", " ">>, <<"w", "h", "y">>, <<" ", "w", "h", "y", " ">>}
RECURSIVE TrimStart(_)
TrimStart(chars) ==
    IF chars # <<>> /\ Head(chars) = " " THEN TrimStart(Tail(chars)) ELSE chars
RECURSIVE TrimEnd(_)
TrimEnd(chars) ==
    IF chars # <<>> /\ chars[Len(chars)] = " "
    THEN TrimEnd(SubSeq(chars, 1, Len(chars) - 1)) ELSE chars
Trim(chars) == TrimEnd(TrimStart(chars))

\* The tools processInlineQuery offers (llm.ts:242).
InlineTools == {Tool("web_search", "", {})}

\* What the provider answers to an inline query: a text of any length up to
\* MaxAnswer, with or without a tool call.
InlineResponses ==
    [toolCalls : {<<>>, <<[id |-> 1, type |-> "function_call", name |-> "list_tasks",
                           arguments |-> ArgsEmpty]>>},
     hasText : BOOLEAN, textLength : 0..MaxAnswer]

\* Faulty variant: the loop goes round again while the model answers with
\* tool calls and no text.
AfterInlineResponse_Continues(r, iterations) ==
    IF r.textLength = 0 /\ r.toolCalls # <<>> /\ iterations < MAX_ITERATIONS
    THEN "deciding" ELSE "answering"

\* Where the while loop of processInlineQuery goes after a response
\* (llm.ts:249-266): it returns or breaks on every path.
AfterInlineResponse(r, iterations) == "answering"

\* What processInlineQuery returns for the response r (llm.ts:254-269).
ProcessInlineQuery(r) ==
    IF r.textLength > 0 THEN Text("answer", r.textLength) ELSE InlineFallback

\* The article the handler builds from what processInlineQuery returned
\* (handlers.ts:141-159).
Article(returned) ==
    LET truncatedResponse == Truncate(returned, MessageLimit, MessageKept)
    IN  [type |-> "article",
         message_text |-> truncatedResponse,
         description |-> Truncate(truncatedResponse, DescriptionLimit, DescriptionKept)]
ErrorArticle ==
    [type |-> "error", message_text |-> Text("sorry", 84), description |-> Text("wrong", 39)]

\* provider.complete was called with tools; processInlineQuery has returned
\* the string returned, or goes round its loop (NotReturned).
NotReturned == Text("none", 0)
Completed(tools, returned) ==
    Ret(FALSE, Json({"complete"}, "absent", "", [tools |-> tools, returned |-> returned]))
\* ctx.answerInlineQuery(results, ...)
Answered(results) ==
    Ret(FALSE, Json({"answerInlineQuery"}, "absent", "", results))

\* The inline_query handler up to its first await (handlers.ts:124-139): a
\* query shorter than three characters is answered with no result.
InlineQueryArrives(query) ==
    /\ pc = "idle"
    /\ ret = NoRet
    /\ IF Len(Trim(query)) < MinQueryLength
       THEN /\ pc' = "handled"
            /\ ret' = Answered(<<>>)
       ELSE /\ pc' = "deciding"
            /\ ret' = ret
    /\ numCompletes' = 0
    /\ response' = NoResponse
    /\ obs' = NoObs
    /\ UNCHANGED <<turnChat, numToolsCalled, callIdx, toolResults, inFlight, sessions, noteSeq>>
    /\ UNCHANGED <<schedVars, proc>>

\* provider.complete of processInlineQuery returns r (llm.ts:249-266).
InlineProviderReturns(r) ==
    /\ pc = "deciding"
    /\ r.hasText = (r.textLength > 0)
    /\ numCompletes < MAX_ITERATIONS
    /\ numCompletes' = numCompletes + 1
    /\ response' = r
    /\ pc' = AfterInlineResponse(r, numCompletes + 1)
    /\ ret' = Completed(InlineTools, IF pc' = "answering" THEN ProcessInlineQuery(r)
                                     ELSE NotReturned)
    /\ UNCHANGED <<turnChat, numToolsCalled, callIdx, toolResults, inFlight, sessions,
                   noteSeq, obs>>
    /\ UNCHANGED <<schedVars, proc>>

\* provider.complete throws: the catch block of the handler answers with the
\* error article (handlers.ts:167-184).
InlineProviderFails ==
    /\ pc = "deciding"
    /\ numCompletes' = numCompletes + 1
    /\ pc' = "handled"
    /\ obs' = [obs EXCEPT !.fault = "provider"]
    /\ ret' = Answered(<<ErrorArticle>>)
    /\ UNCHANGED <<turnChat, numToolsCalled, response, callIdx, toolResults, inFlight,
                   sessions, noteSeq>>
    /\ UNCHANGED <<schedVars, proc>>

\* The handler answers with what processInlineQuery returned
\* (handlers.ts:139-165); when the platform refuses the answer, the catch
\* block answers with the error article.
InlineAnswered(accepted) ==
    /\ pc = "answering"
    /\ pc' = "handled"
    /\ ret' = Answered(<<IF accepted THEN Article(ret.out.data.returned) ELSE ErrorArticle>>)
    /\ UNCHANGED <<turnChat, numToolsCalled, numCompletes, response, callIdx, toolResults,
                   inFlight, sessions, noteSeq, obs>>
    /\ UNCHANGED <<schedVars, proc>>

\* The handler has returned: the next inline query can arrive.
InlineHandled ==
    /\ pc = "handled"
    /\ pc' = "idle"
    /\ ret' = NoRet
    /\ UNCHANGED <<turnChat, numToolsCalled, numCompletes, response, callIdx, toolResults,
                   inFlight, sessions, noteSeq, obs>>
    /\ UNCHANGED <<schedVars, proc>>

InlineNext ==
    \/ \E query \in Queries : InlineQueryArrives(query)
    \/ \E r \in InlineResponses : InlineProviderReturns(r)
    \/ InlineProviderFails
    \/ \E accepted \in BOOLEAN : InlineAnswered(accepted)
    \/ InlineHandled

InlineSpec == Init /\ [][InlineNext]_vars

\* The provider and the handlers return, and the loop takes its steps.
FairLoopSpec == LoopSpec /\ WF_vars(TurnStep)

\* ------------------------------------------------------------------ claims
CancelOf(id) == [NoArgs EXCEPT !.task_id = id]
ScheduleOf(p, e, r) == [NoArgs EXCEPT !.prompt = p, !.schedule = e, !.recurring = r]
Rejected(r, msg) == ~r.threw /\ r.out.success = "false" /\ r.out.error = msg

TurnEnded == pc \in {"done", "aborted"}
DispatchFault == pc = "aborted" /\ obs.fault \in {"parse", "handler"}

\* C1: within one turn of decideAndAct the number of function-tool dispatches,
\* counted by numToolsCalled, never exceeds MAX_TOOL_CALLS.
C1_DispatchesWithinCeiling ==
    /\ numToolsCalled <= MAX_TOOL_CALLS
    /\ obs.dispatched <= MAX_TOOL_CALLS

\* C2: every turn ends when the provider and the handlers return: the loop
\* makes at most MAX_TOOL_CALLS + 1 calls to provider.complete, a turn that
\* has begun reaches its end, and it ends by returning from Finalizing unless
\* a fault was raised.
C2_TurnTerminates ==
    /\ [](numCompletes <= MAX_TOOL_CALLS + 1)
    /\ [](pc = "aborted" => obs.fault # "none")
    /\ [](pc = "done" => obs.fault = "none")
    /\ (pc = "deciding" ~> TurnEnded)
C2_Witness ==
    /\ pc = "done"
    /\ numCompletes = MAX_TOOL_CALLS + 1
    /\ obs.cycles = MAX_TOOL_CALLS

\* C3: the function calls of one response are dispatched one at a time in the
\* order of the response: at most one handler is in flight, it is the handler
\* of the call that follows the last collected result, as many handlers were
\* started as there are results and handlers in flight, and the collected
\* results carry the ids of the calls in the order of the calls.
C3_SequentialDispatch ==
    /\ Cardinality(inFlight) <= 1
    /\ pc \in {"dispatching", "awaiting", "building"} =>
         LET ids == [i \in 1..Len(FunctionCalls(response)) |->
                        FunctionCalls(response)[i].id]
             n == Len(toolResults)
         IN  /\ n <= Len(ids)
             /\ \A i \in 1..n : toolResults[i].callId = ids[i]
             /\ \A i, j \in 1..Len(ids) : i < j => ids[i] < ids[j]
             /\ \A id \in inFlight : n < Len(ids) /\ id = ids[n + 1]
             /\ callIdx = n + Cardinality(inFlight) + 1
             /\ (pc = "awaiting") = (inFlight # {})
             /\ pc = "building" => n = Len(ids)
C3_Witness ==
    /\ pc = "awaiting"
    /\ Len(toolResults) = 1
    /\ toolResults[1].callId = 1
    /\ inFlight = {2}

\* C4: a turn whose responses hold at most MAX_TOOL_CALLS function calls in
\* all never fails in a dispatch, and when it has ended every returned
\* function call was dispatched exactly once, the last response held no
\* function call, the counter is within the budget and no budget warning was
\* raised.
C4_WithinBudgetRunsToFinalizing ==
    obs.returned <= MAX_TOOL_CALLS =>
        /\ ~DispatchFault
        /\ pc = "done" =>
             /\ obs.dispatched = obs.returned
             /\ numToolsCalled = obs.returned
             /\ numToolsCalled <= MAX_TOOL_CALLS
             /\ ~HasFunctionCalls(response)
             /\ ~obs.warned

\* C5: from Deciding a response with at least one function call leads to
\* Dispatching and any other response to Finalizing; a response without tool
\* calls ends the turn with no dispatch and no history entry; and a turn that
\* ends with text after a single function call made one Dispatching cycle,
\* two provider calls and one dispatch.
C5_DecidingBranches ==
    [][/\ (pc = "deciding" /\ pc' # "aborted") =>
            LET calls == response'.toolCalls
                some == \E i \in 1..Len(calls) : calls[i].type = "function_call"
            IN  /\ numCompletes' = numCompletes + 1
                /\ some => pc' = "dispatching" /\ obs'.cycles = obs.cycles + 1
                /\ ~some => pc' = "finalizing" /\ obs'.cycles = obs.cycles
                /\ obs'.dispatched = obs.dispatched
       /\ (pc = "finalizing" /\ response.toolCalls = <<>>) =>
            /\ pc' = "done"
            /\ sessions' = sessions
            /\ obs'.recorded = 0
            /\ obs'.dispatched = obs.dispatched
       /\ (pc' = "done" /\ obs'.returned = 1 /\ response'.hasText
             /\ \A i \in 1..Len(response'.toolCalls) :
                   response'.toolCalls[i].type # "function_call") =>
            /\ obs'.cycles = 1
            /\ numCompletes' = 2
            /\ obs'.dispatched = 1
            /\ numToolsCalled' = 1]_vars
C5_Witness ==
    /\ pc = "done"
    /\ obs.returned = 1
    /\ obs.cycles = 1
    /\ numCompletes = 2
    /\ response = [toolCalls |-> <<>>, hasText |-> TRUE]

\* C6: whatever tool name and argument payload the model emits, dispatching
\* the call yields a result string: no exception of JSON.parse or of the
\* handler escapes the dispatch and aborts the turn.
C6_DispatchNeverThrows == ~DispatchFault

\* C7: a cancel_task of a chat that does not own the task returns success:false
\* with "Task does not belong to this chat."; the task stays in scheduledTasks
\* and its timer stays pending as it was, so it fires at its trigger.
C7_CancelByOtherChatRejected ==
    [][\A c \in Chats, u \in Users, id \in TaskIds :
          (/\ id \in DOMAIN scheduledTasks
           /\ scheduledTasks[id].chatId # c
           /\ Dispatch(c, u, "cancel_task", CancelOf(id)))
          => /\ Rejected(ret', ErrNotOwner)
             /\ scheduledTasks' = scheduledTasks
             /\ timers' = timers]_vars

C7_Witness ==
    /\ Rejected(ret, ErrNotOwner)
    /\ \E id \in DOMAIN scheduledTasks : id \in DOMAIN timers

\* C8: a one-time schedule_task whose date is not later than now returns
\* success:false with "Scheduled time must be in the future."; one whose
\* schedule is no date returns success:false; neither adds a timer or a task.
C8_OneShotNotInFutureRejected ==
    [][\A c \in Chats, u \in Users, p \in Prompts, e \in ScheduleExprs :
          (/\ DateParse(e) <= now
           /\ Dispatch(c, u, "schedule_task", ScheduleOf(p, e, FALSE)))
          => /\ IF DateParse(e) = NaN THEN Rejected(ret', ErrInvalidDate)
                ELSE Rejected(ret', ErrFuture)
             /\ scheduledTasks' = scheduledTasks
             /\ timers' = timers]_vars

C8_Witness == Rejected(ret, ErrFuture) /\ now > 0

\* C9: a successful schedule_task returns an id that no earlier call was given,
\* and adds exactly the task of that id with the caller's chat, prompt,
\* schedule, recurring flag and creator; every other task is unchanged.
C9_CreateAddsOneFreshTask ==
    [][\A c \in Chats, u \in Users, p \in Prompts, e \in ScheduleExprs, r \in BOOLEAN :
          (/\ Dispatch(c, u, "schedule_task", ScheduleOf(p, e, r))
           /\ ret'.out.success = "true")
          => LET id == ret'.out.data[1]
             IN  /\ id \notin 1..uuid
                 /\ id \notin DOMAIN scheduledTasks
                 /\ DOMAIN scheduledTasks' = (DOMAIN scheduledTasks) \cup {id}
                 /\ scheduledTasks'[id] =
                        [id |-> id, chatId |-> c, prompt |-> p, schedule |-> e,
                         recurring |-> r, createdBy |-> u]
                 /\ \A j \in DOMAIN scheduledTasks : scheduledTasks'[j] = scheduledTasks[j]
                 /\ DOMAIN timers' = (DOMAIN timers) \cup {id}
                 /\ \A j \in DOMAIN timers : timers'[j] = timers[j]]_vars

\* A second id was issued after the task of the first one was removed.
C9_Witness ==
    /\ ~ret.threw /\ ret.out.success = "true" /\ "taskId" \in ret.out.keys
    /\ ret.out.data[1] = 2
    /\ DOMAIN scheduledTasks = {2}

\* C10: a recurring schedule_task whose expression is no valid cron expression
\* returns success:false with an error and leaves timers and tasks as they were.
C10_InvalidRecurrenceRejected ==
    [][\A c \in Chats, u \in Users, p \in Prompts, e \in ScheduleExprs :
          (/\ ~CronValid(e)
           /\ Dispatch(c, u, "schedule_task", ScheduleOf(p, e, TRUE)))
          => /\ ~ret'.threw /\ ret'.out.success = "false" /\ ret'.out.error # ""
             /\ scheduledTasks' = scheduledTasks
             /\ timers' = timers]_vars

\* C11: when the execution of a fired task ends, a one-shot task is out of
\* the live set whatever the outcome of the provider call, it has no timer and
\* no chat lists it, and the other tasks are as they were; a recurring task
\* and its timer are as they were before.  A fire changes no task and leaves
\* the timer of a recurring job pending.  An id that left the live set or lost
\* its timer never comes back, and a task that stays keeps its fields.
C11_OneShotRemovedRecurringStays ==
    [][/\ \A task \in executing, outcome \in ScheduledOutcomes :
            ExecutionEnds(task, outcome) =>
               IF ~task.recurring
               THEN /\ task.id \notin DOMAIN scheduledTasks'
                    /\ task.id \notin DOMAIN timers'
                    /\ \A c \in Chats :
                          \A info \in ListScheduledTasks(scheduledTasks', timers', now', c) :
                             info.id # task.id
                    /\ scheduledTasks' =
                          Restrict(scheduledTasks, (DOMAIN scheduledTasks) \ {task.id})
                    /\ timers' = timers
               ELSE scheduledTasks' = scheduledTasks /\ timers' = timers
       /\ \A id \in TaskIds :
            TimerFire(id) =>
               /\ scheduledTasks' = scheduledTasks
               /\ (~timers[id].oneTime =>
                     /\ DOMAIN timers' = DOMAIN timers
                     /\ ~timers'[id].oneTime
                     /\ \A other \in (DOMAIN timers) \ {id} : timers'[other] = timers[other])
               /\ (timers[id].oneTime => id \notin DOMAIN timers')
       /\ \A id \in 1..uuid :
            /\ id \notin DOMAIN scheduledTasks => id \notin DOMAIN scheduledTasks'
            /\ id \notin DOMAIN timers => id \notin DOMAIN timers'
            /\ (id \in DOMAIN scheduledTasks /\ id \in DOMAIN scheduledTasks')
                  => scheduledTasks'[id] = scheduledTasks[id]]_vars
C11_Witness ==
    /\ ret.out.keys = {"log"}
    /\ ret.out.success = "false"
    /\ ret.out.data[3]
    /\ ret.out.data[1] \notin DOMAIN scheduledTasks
    /\ \E id \in DOMAIN scheduledTasks :
          scheduledTasks[id].recurring /\ id \in DOMAIN timers /\ ~timers[id].oneTime

\* C12: a fire finds its task and starts exactly one execution, which is one
\* provider call with the tools of getSchedulerTools, none of them a function
\* tool; the fire and the end of the execution dispatch nothing: they leave
\* the sessions, the id and note counters and every other task and timer as
\* they were, the end taking at most the executed task out of the live set.
C12_FireCallsProviderOnce ==
    [][/\ \A tool \in GetSchedulerTools : tool.type \in {"mcp", "web_search"}
       /\ \A id \in TaskIds :
            TimerFire(id) =>
               /\ id \in DOMAIN scheduledTasks
               /\ scheduledTasks[id] \notin executing
               /\ executing' = executing \cup {scheduledTasks[id]}
               /\ scheduledTasks' = scheduledTasks
               /\ DOMAIN timers' \subseteq DOMAIN timers
               /\ sessions' = sessions /\ uuid' = uuid /\ noteSeq' = noteSeq
       /\ \A task \in executing, outcome \in ScheduledOutcomes :
            ExecutionEnds(task, outcome) =>
               /\ executing' = executing \ {task}
               /\ scheduledTasks' \in
                     {scheduledTasks,
                      Restrict(scheduledTasks, (DOMAIN scheduledTasks) \ {task.id})}
               /\ timers' = timers
               /\ sessions' = sessions /\ uuid' = uuid /\ noteSeq' = noteSeq
               /\ ret'.out.keys = {"log"}]_vars
C12_Witness ==
    /\ ret.out.keys = {"log"}
    /\ ret.out.data[2] = 1
    /\ ~ret.out.data[3]
    /\ ret.out.data[1] \in DOMAIN scheduledTasks
    /\ \E other \in DOMAIN scheduledTasks :
          /\ other # ret.out.data[1]
          /\ scheduledTasks[other].chatId = scheduledTasks[ret.out.data[1]].chatId

\* C13: a successful cancel_task, and cancel_all_tasks for each task of the
\* chat, takes the task out of the live set and takes its timer away, for
\* good; an execution starts only for a task that is in the live set with a
\* pending timer, so a cancelled task is never executed afterwards.  A cancel
\* leaves the executions in flight as they are, and an execution in flight can
\* always end, with success or with failure.
C13_CancelStopsFutureFiresOnly ==
 /\ [](ret = NoRet =>
         \A task \in executing, outcome \in ScheduledOutcomes :
            ENABLED ExecutionEnds(task, outcome))
 /\ [][/\ \A c \in Chats, u \in Users, id \in TaskIds :
            (Dispatch(c, u, "cancel_task", CancelOf(id)) /\ ret'.out.success = "true") =>
               /\ id \notin DOMAIN scheduledTasks' /\ id \notin DOMAIN timers'
               /\ executing' = executing
       /\ \A c \in Chats, u \in Users :
            Dispatch(c, u, "cancel_all_tasks", NoArgs) =>
               /\ \A id \in DOMAIN scheduledTasks :
                     scheduledTasks[id].chatId = c =>
                        id \notin DOMAIN scheduledTasks' /\ id \notin DOMAIN timers'
               /\ executing' = executing
       /\ \A task \in executing' \ executing :
            /\ task.id \in DOMAIN timers
            /\ task.id \in DOMAIN scheduledTasks
            /\ scheduledTasks[task.id] = task
       /\ \A id \in 1..uuid :
            /\ id \notin DOMAIN scheduledTasks => id \notin DOMAIN scheduledTasks'
            /\ id \notin DOMAIN timers => id \notin DOMAIN timers'
       /\ \A id \in DOMAIN timers : id \in DOMAIN scheduledTasks]_vars
C13_Witness ==
    /\ ~ret.threw /\ ret.out.keys = {"success"} /\ ret.out.success = "true"
    /\ \E task \in executing : task.id \notin DOMAIN scheduledTasks
    /\ \E id \in 1..uuid :
          /\ id \notin DOMAIN scheduledTasks
          /\ \A task \in executing : task.id # id

\* C14: when the status of the bot in a chat it was in becomes left or
\* kicked, no task of that chat remains in the live set and none keeps a
\* timer, and the tasks and timers of the other chats are as they were.
C14_RemovalCancelsChatTasks ==
    [][\A c \in Chats, oldStatus \in {"member", "administrator", "restricted"},
          newStatus \in {"left", "kicked"} :
          MyChatMember(c, oldStatus, newStatus) =>
             LET others == {id \in DOMAIN scheduledTasks : scheduledTasks[id].chatId # c}
             IN  /\ scheduledTasks' = Restrict(scheduledTasks, others)
                 /\ timers' = Restrict(timers, (DOMAIN timers) \cap others)]_vars

\* C15: set_config leaves a field it is not given at its prior value, sets a
\* field given as null to null and sets a field given a value to that value,
\* each of the three fields on its own; reset_config sets the three fields to
\* null.  Both leave the rest of the session and the other chats as they were.
C15_SetConfigPartialUpdate ==
    [][/\ \A c \in Chats, u \in Users, args \in ConfigArgs :
            Dispatch(c, u, "set_config", args) =>
               LET old == sessions[c].config
                   new == sessions'[c].config
                   Updated(given, before, after) ==
                       /\ given = Undefined => after = before
                       /\ given = NullV => after = NullV
                       /\ given \in ConfigStrings => after = given
               IN  /\ Updated(args.custom_prompt, old.customPrompt, new.customPrompt)
                   /\ Updated(args.language, old.language, new.language)
                   /\ Updated(args.personality, old.personality, new.personality)
                   /\ sessions'[c].notes = sessions[c].notes
                   /\ sessions'[c].messages = sessions[c].messages
                   /\ \A d \in Chats \ {c} : sessions'[d] = sessions[d]
                   /\ ~ret'.threw /\ ret'.out.success = "true" /\ ret'.out.data = <<new>>
       /\ \A c \in Chats, u \in Users :
            Dispatch(c, u, "reset_config", NoArgs) =>
               /\ sessions'[c].config =
                     [customPrompt |-> NullV, language |-> NullV, personality |-> NullV]
               /\ sessions'[c].notes = sessions[c].notes
               /\ sessions'[c].messages = sessions[c].messages
               /\ \A d \in Chats \ {c} : sessions'[d] = sessions[d]]_vars
C15_Witness ==
    /\ ret.out.keys = {"success", "message", "config"}
    /\ ret.out.data = <<[customPrompt |-> "pt", language |-> NullV, personality |-> "pt"]>>
    /\ sessions[1].config = [customPrompt |-> "pt", language |-> NullV, personality |-> "pt"]
    /\ sessions[2].config = [customPrompt |-> NullV, language |-> "pt", personality |-> NullV]

\* C16: starting from an empty notes store, after any sequence of add_note,
\* remove_note and clear_notes calls no category of any chat maps to an empty
\* list, and the full notes listing names only categories that hold a note:
\* removing the last item of a category removes its key.
C16_NoEmptyCategory ==
    /\ \A c \in Chats : \A k \in DOMAIN sessions[c].notes : sessions[c].notes[k] # <<>>
    /\ ret.out.keys = {"notes", "keys", "totalCount"} =>
          \A k \in ret.out.data[2] : ret.out.data[1][k] # <<>>
C16_Witness ==
    /\ ret.out.keys = {"success", "message", "key"}
    /\ ret.out.data = <<"shop", "Note removed">>
    /\ DOMAIN sessions[1].notes = {"todo"}
    /\ sessions[2].notes = <<>>
    /\ noteSeq = 2

\* The items a list_notes result carries, of either shape.
Listed(out) ==
    IF "key" \in out.keys
    THEN {out.data[2][i] : i \in 1..Len(out.data[2])}
    ELSE UNION {{out.data[1][k][i] : i \in 1..Len(out.data[1][k])} : k \in DOMAIN out.data[1]}
Stored(notes, key) ==
    IF key \in DOMAIN notes THEN {notes[key][i] : i \in 1..Len(notes[key])} ELSE {}

\* C17: add_note(key=k, content=c) puts a note of content c at the end of the
\* category Normalize(k), and list_notes(key=k') returns the notes of the
\* category Normalize(k'): every note stored under it is returned, and when
\* the category holds one note the result is exactly that one item.
C17_ListReturnsCategory ==
    [][/\ \A c \in Chats, u \in Users, args \in NoteArgs :
            Dispatch(c, u, "add_note", args) =>
               LET key == Normalize(args.key)
                   before == IF key \in DOMAIN sessions[c].notes
                             THEN sessions[c].notes[key] ELSE <<>>
               IN  /\ ~ret'.threw
                   /\ key \in DOMAIN sessions'[c].notes
                   /\ Len(sessions'[c].notes[key]) = Len(before) + 1
                   /\ sessions'[c].notes[key][Len(before) + 1].content = args.content
       /\ \A c \in Chats, u \in Users, k \in NoteKeys :
            Dispatch(c, u, "list_notes", [NoArgs EXCEPT !.key = k]) =>
               LET stored == Stored(sessions[c].notes, Normalize(k))
               IN  /\ ~ret'.threw
                   /\ stored \subseteq Listed(ret'.out)
                   /\ Cardinality(stored) = 1 => Listed(ret'.out) = stored]_vars

\* C18: for every tool name that is not declared in the catalog, handleToolCall
\* returns the unknown-tool error payload and changes neither the sessions nor
\* the live task set.
C18_UndeclaredNameIsUnknownTool ==
    [][\A c \in Chats, u \in Users :
         \A name \in {call[1] : call \in SchedulerCalls} \ ToolNames :
            Dispatch(c, u, name, NoArgs) =>
               /\ ret' = Ret(FALSE, Json({"error"}, "absent", ErrUnknownTool, <<>>))
               /\ sessions' = sessions
               /\ scheduledTasks' = scheduledTasks
               /\ timers' = timers]_vars

\* C19: every result handleToolCall returns for a tool of the catalog carries
\* a boolean success field, with an error string when success is false.
C19_ResultCarriesSuccess ==
    [][\A c \in Chats, u \in Users, call \in SchedulerCalls :
         call[1] \in ToolNames /\ Dispatch(c, u, call[1], call[2]) =>
            /\ ~ret'.threw
            /\ "success" \in ret'.out.keys
            /\ ret'.out.success \in {"true", "false"}
            /\ ret'.out.success = "false" =>
                  "error" \in ret'.out.keys /\ ret'.out.error # ""]_vars

\* C20: when provider.complete fails, at any iteration of a turn, the turn is
\* aborted at once: the failing step records nothing and dispatches nothing,
\* and after it the turn makes no further provider call, dispatches no further
\* tool and records no assistant history entry.
C20_ProviderFailureAborts ==
    /\ [](obs.fault = "provider" =>
            /\ pc = "aborted"
            /\ obs.recorded = 0
            /\ inFlight = {}
            /\ ~ENABLED TurnStep)
    /\ [][/\ obs.fault = "none" /\ obs'.fault = "provider" =>
               /\ pc = "deciding"
               /\ sessions' = sessions
               /\ obs'.dispatched = obs.dispatched
               /\ obs'.recorded = obs.recorded
        /\ obs.fault = "provider" =>
               /\ numCompletes' = numCompletes
               /\ obs'.dispatched = obs.dispatched
               /\ sessions' = sessions]_vars
C20_Witness ==
    /\ pc = "aborted"
    /\ obs.fault = "provider"
    /\ numCompletes = 2
    /\ obs.dispatched >= 1
    /\ obs.recorded = 0

\* The sendMessage calls of a response whose arguments are among args, as the
\* places they hold in the response.
SentWith(r, args) ==
    SelectSeq(r.toolCalls,
              LAMBDA tc : tc.type = "mcp_call" /\ tc.name = "sendMessage" /\ tc.arguments \in args)

\* C21 as stated: Finalizing ends the turn normally and records exactly one
\* entry for each sendMessage call of the terminating response whose
\* arguments parse as JSON.
C21_OneEntryPerParsedSend ==
    [][pc = "finalizing" /\ pc' # "finalizing" =>
          /\ pc' = "done"
          /\ Len(sessions'[turnChat].messages) =
                Len(sessions[turnChat].messages)
                + Len(SentWith(response, {ArgsText, ArgsYo, ArgsEmpty, ArgsNull}))]_vars

\* C21 amended: Finalizing ends the turn normally and appends to the history
\* of the chat exactly one assistant entry for each sendMessage call of the
\* terminating response whose arguments parse as JSON to a value other than
\* null, in response order, with the text of the call; the calls whose
\* arguments do not parse, or parse to null, are skipped and the calls after
\* them are still recorded.
C21_OneEntryPerRecordableSend ==
    [][pc = "finalizing" /\ pc' # "finalizing" =>
          LET sent == SentWith(response, {ArgsText, ArgsYo, ArgsEmpty})
              text(a) == CASE a = ArgsText -> "hi" [] a = ArgsYo -> "yo" [] OTHER -> ""
          IN  /\ pc' = "done"
              /\ sessions'[turnChat].messages =
                    sessions[turnChat].messages \o
                    [i \in 1..Len(sent) |->
                        [role |-> "assistant", name |-> "Bot", content |-> text(sent[i].arguments)]]
              /\ \A d \in Chats \ {turnChat} : sessions'[d] = sessions[d]
              /\ sessions'[turnChat].notes = sessions[turnChat].notes
              /\ sessions'[turnChat].config = sessions[turnChat].config]_vars
C21_Witness ==
    /\ pc = "done"
    /\ Len(response.toolCalls) = 2
    /\ response.toolCalls[1].arguments = ArgsBad
    /\ response.toolCalls[2].arguments = ArgsYo
    /\ response.toolCalls[2].name = "sendMessage"
    /\ sessions[turnChat].messages = <<[role |-> "assistant", name |-> "Bot", content |-> "yo"]>>

\* C22: when a turn aborts with an error (or the photo cannot be downloaded),
\* the message handler ends without raising; it sends at most one fallback
\* message, and none in a group or supergroup, whether or not the platform
\* accepts the fallback.
C22_LowNoiseFallback ==
    /\ [](/\ ~obs.raised
           /\ obs.fallbacks <= 1
           /\ (obs.fallbacks = 1 => pc = "handled" /\ obs.chatType = "private")
           /\ (pc = "handled" /\ obs.chatType \in {"group", "supergroup"}
                  => obs.fallbacks = 0))
    /\ [][pc = "aborted" /\ pc' # "aborted" =>
             /\ pc' = "handled"
             /\ sessions' = sessions
             /\ obs'.fallbacks = IF obs.chatType \in {"group", "supergroup"} THEN 0 ELSE 1]_vars
C22_Witness ==
    /\ pc = "handled"
    /\ obs.fault = "handler"
    /\ obs.chatType = "private"
    /\ obs.fallbacks = 1

\* The text names the bot: "@" and the username of the bot, not followed by
\* a character of a longer username and not inside a word.
MentionsBot(text) ==
    LET chars == CharsOf(text)
        at == <<"@">> \o MeUsername
        word == {"a", "b", "h", "i", "j", "o", "x"}
    IN  \E i \in 1..(Len(chars) - Len(at) + 1) :
            /\ SubSeq(chars, i, i + Len(at) - 1) = at
            /\ (i + Len(at) <= Len(chars) => chars[i + Len(at)] \notin word)
            /\ (i > 1 => chars[i - 1] \notin word)

\* C23: in a group or supergroup a message that neither mentions the bot nor
\* replies to a message of the bot, and any message sent by a bot, starts no
\* turn, makes no provider call and leaves the sessions unchanged.
C23_UnaddressedMessageIgnored ==
    [][\A c \in Chats, m \in Messages :
         /\ MessageArrives(c, m)
         /\ \/ m.fromBot
            \/ /\ m.chatType \in {"group", "supergroup"}
               /\ ~MentionsBot(m.text)
               /\ ~(m.hasReply /\ m.replyFrom.username = MeUsername)
         => /\ pc' = "idle"
            /\ numCompletes' = numCompletes
            /\ sessions' = sessions]_vars

\* C24: listScheduledTasks changes neither the live set nor any timer and
\* returns the summaries of the chat's tasks, and what it would return for a
\* chat is the same after every step that is not a create, a cancel, a
\* cancel-all or a fire (the clock advancing, a result taken, another list,
\* an unknown tool): two lists with none of these in between agree.
C24_ListIdempotent ==
    [][/\ \A c \in Chats, u \in Users :
            Dispatch(c, u, "list_tasks", NoArgs) =>
               /\ scheduledTasks' = scheduledTasks
               /\ timers' = timers
               /\ executing' = executing
               /\ ~ret'.threw
               /\ ret'.out.data = <<ListScheduledTasks(scheduledTasks, timers, now, c)>>
               /\ \A info \in ret'.out.data[1] :
                     /\ info.id \in DOMAIN scheduledTasks
                     /\ scheduledTasks[info.id].chatId = c
                     /\ info.prompt = scheduledTasks[info.id].prompt
               /\ \A id \in DOMAIN scheduledTasks :
                     scheduledTasks[id].chatId = c =>
                        \E info \in ret'.out.data[1] : info.id = id
       /\ (\/ Tick
           \/ ResultTaken
           \/ \E c \in Chats, u \in Users, name \in {"list_tasks", "frobnicate"} :
                 Dispatch(c, u, name, NoArgs))
          => \A c \in Chats :
                ListScheduledTasks(scheduledTasks', timers', now', c)
                   = ListScheduledTasks(scheduledTasks, timers, now, c)]_vars
C24_Witness ==
    /\ ret.out.keys = {"tasks"}
    /\ now = 1
    /\ \E info \in ret.out.data[1] : info.recurring /\ info.nextRun = 1
    /\ \E info \in ret.out.data[1] : ~info.recurring

\* C25: remove_note(id) on a chat that holds a note of that id takes exactly
\* that note out: every category keeps its other notes in their order, the
\* configuration and the history of the chat and the other chats are as they
\* were; when the chat holds no note of that id the result is success false
\* with an error string and nothing changes.
C25_RemoveNoteFrame ==
    [][\A c \in Chats, u \in Users, id \in NoteIdArgs :
         Dispatch(c, u, "remove_note", [NoArgs EXCEPT !.note_id = id]) =>
            LET notes == sessions[c].notes
                others(k) == SelectSeq(notes[k], LAMBDA n : n.id # id)
                held == \E k \in DOMAIN notes : \E i \in 1..Len(notes[k]) : notes[k][i].id = id
            IN  /\ ~ret'.threw
                /\ sessions'[c].config = sessions[c].config
                /\ sessions'[c].messages = sessions[c].messages
                /\ \A d \in Chats \ {c} : sessions'[d] = sessions[d]
                /\ scheduledTasks' = scheduledTasks /\ timers' = timers
                /\ IF held
                   THEN /\ ret'.out.success = "true"
                        /\ sessions'[c].notes =
                              [k \in {j \in DOMAIN notes : others(j) # <<>>} |-> others(k)]
                        /\ Cardinality(NoteIds(sessions'[c].notes))
                              = Cardinality(NoteIds(notes)) - 1
                   ELSE /\ ret'.out.success = "false"
                        /\ "error" \in ret'.out.keys /\ ret'.out.error # ""
                        /\ sessions'[c].notes = notes]_vars
C25_Witness ==
    /\ ret.out.keys = {"success", "message", "key"}
    /\ ret.out.data = <<"shop", "Note removed">>
    /\ DOMAIN sessions[1].notes = {"shop"}
    /\ Len(sessions[1].notes["shop"]) = 1
    /\ sessions[1].notes["shop"][1].id = 2
    /\ sessions[2].notes = <<>>

\* C26: with the bot token and the capability-server host configured, the
\* process gets its provider exactly when the selected kind (openai when the
\* discriminator is unset) is registered and the credential of that kind is
\* present, and the provider is of the selected kind; the credential of the
\* other kind is not required.
C26_ProviderFromConfiguration ==
    (proc.phase # "loading" /\ proc.env.BOT_TOKEN = "t" /\ proc.env.TELEGRAM_MCP_HOST = "h") =>
        LET selected == IF proc.env.LLM_PROVIDER = Undefined THEN "openai"
                        ELSE proc.env.LLM_PROVIDER
            present == \/ selected = "openai" /\ proc.env.OPENAI_API_KEY = "k"
                       \/ selected = "gemini" /\ proc.env.GEMINI_API_KEY = "k"
        IN  /\ proc.phase = "running" <=> present
            /\ proc.phase = "running" => proc.instances[1].kind = selected
            /\ proc.phase = "failed" => proc.instances = <<>> /\ proc.error # ""

\* C27: the process constructs at most one provider, at startup, and turns,
\* inline queries and scheduled fires all use that one instance, which is
\* never replaced.
C27_OneSharedProvider ==
    /\ [](/\ Len(proc.instances) <= 1
           /\ proc.phase = "running" => Len(proc.instances) = 1
           /\ \A use \in proc.uses : use.instance = 1)
    /\ [][proc.phase = "running" => proc'.llm = proc.llm /\ proc'.instances = proc.instances]_vars

\* C28: under every interleaving of turns (create, cancel, cancel-all, list),
\* timer fires and execution ends, every pending timer belongs to a task of
\* the live set, every task of the live set has a pending timer or is a
\* one-shot task whose execution is in flight, and an id that is not in the
\* live set has no pending timer.
C28_TasksAndTimersConsistent ==
    /\ \A id \in DOMAIN timers : id \in DOMAIN scheduledTasks
    /\ \A id \in DOMAIN scheduledTasks :
          \/ id \in DOMAIN timers
          \/ ~scheduledTasks[id].recurring /\ \E task \in executing : task.id = id
    /\ \A id \in TaskIds \ DOMAIN scheduledTasks : id \notin DOMAIN timers

\* The tool calls among the items of an OpenAI input, as the response held them.
CallsAmong(items) ==
    LET calls == SelectSeq(items, LAMBDA item : item.type \in {"function_call", "mcp_call"})
    IN  [i \in 1..Len(calls) |-> [id |-> calls[i].call_id, type |-> calls[i].type,
                                  name |-> calls[i].name, arguments |-> calls[i].arguments]]

\* C29: after a Dispatching cycle the input buildNextInput built, of either
\* adapter, begins with the previous conversation unchanged, goes on with the
\* tool calls of the model, and ends with one result per dispatched function
\* call, under the id (OpenAI) or the name (Gemini) of its call and in the
\* order of the calls; every dispatched call has its result and there is no
\* other result.
C29_NextInputHoldsCallsAndResults ==
    [][(pc = "deciding" /\ numCompletes' = numCompletes + 1 /\ ret' # NoRet) =>
        LET calls == FunctionCalls(response')
            results == toolResults'
            prior == CurrentInput
            next == CurrentInput'
            added == SubSeq(next, Len(prior) + 1, Len(next))
            outs == SelectSeq(added, LAMBDA item : item.type = "function_call_output")
            p == GeminiConvertInput(prior)
            n == GeminiConvertInput(next)
            k == Len(p.contents)
        IN  /\ Len(results) = Len(calls)
            /\ \A i \in 1..Len(calls) : results[i].callId = calls[i].id
            /\ (ProviderKind = "openai" =>
                  /\ Len(next) >= Len(prior) + Len(response'.toolCalls) + Len(calls)
                  /\ SubSeq(next, 1, Len(prior)) = prior
                  /\ CallsAmong(added) = response'.toolCalls
                  /\ SubSeq(added, Len(added) - Len(calls) + 1, Len(added)) = outs
                  /\ Len(outs) = Len(calls)
                  /\ \A i \in 1..Len(calls) : /\ outs[i].call_id = calls[i].id
                                              /\ outs[i].output = results[i].result)
            /\ (ProviderKind = "gemini" =>
                  /\ n.systemInstruction = p.systemInstruction
                  /\ Len(n.contents) = k + 2
                  /\ SubSeq(n.contents, 1, k) = p.contents
                  /\ n.contents[k + 1].role = "model"
                  /\ n.contents[k + 1].parts =
                        [i \in 1..Len(calls) |->
                            FunctionCallPart(calls[i].name, calls[i].arguments)]
                  /\ n.contents[k + 2].role = "user"
                  /\ n.contents[k + 2].parts =
                        [i \in 1..Len(calls) |->
                            FunctionResponsePart(calls[i].name, results[i].result)])]_vars

C29_Witness ==
    /\ ProviderKind = "openai"
    /\ numCompletes = 2
    /\ Len(response.toolCalls) = 2
    /\ response.toolCalls[1].type = "mcp_call"
    /\ Len(toolResults) = 1
    /\ Len(CurrentInput) = 7
    /\ CurrentInput[7] = FunctionCallOutput(2, toolResults[1].result)

\* C30: for the Gemini adapter, convertInput of what buildNextInput returned
\* is the system instruction and the contents buildNextInput packed, at every
\* cycle of a turn up to the call budget, and the first input of a turn (a
\* system and a user message) is not taken for the packed form: it is
\* converted to the system instruction and one user content.
C30_GeminiPackedInputRoundTrips ==
    /\ []((ProviderKind = "gemini" /\ pc = "deciding" /\ numCompletes = 0) =>
             /\ ~GeminiPacked(CurrentInput)
             /\ GeminiConvertInput(CurrentInput).systemInstruction = SystemPrompt
             /\ Len(GeminiConvertInput(CurrentInput).contents) = 1
             /\ GeminiConvertInput(CurrentInput).contents[1].parts[1].text.prefix = "chat_id=")
    /\ [][(ProviderKind = "gemini" /\ pc = "deciding" /\ numCompletes' = numCompletes + 1) =>
             /\ GeminiPacked(CurrentInput')
             /\ GeminiConvertInput(CurrentInput') =
                   GeminiNextContents(CurrentInput, response', toolResults')]_vars

C30_Witness ==
    /\ ProviderKind = "gemini"
    /\ pc = "finalizing"
    /\ numCompletes = MAX_TOOL_CALLS + 1
    /\ GeminiPacked(CurrentInput)
    /\ Len(GeminiConvertInput(CurrentInput).contents) = 2 * (MAX_TOOL_CALLS + 1) + 1
    /\ GeminiConvertInput(CurrentInput).contents[1].parts[1].text.key = GeminiKey

\* The tool calls a backend answer holds, in its order.
Returned(b) ==
    LET calls == SelectSeq(b.items, LAMBDA item : item.type \in {"functionCall", "function_call", "mcp_call"})
    IN  [i \in 1..Len(calls) |-> [name |-> calls[i].name, arguments |-> calls[i].arguments]]

\* C31: the canonical response of parseResponse, of either adapter, holds one
\* tool call for each tool call of the backend answer, in its order, and the
\* text when there is any, whatever the parsing path.
C31_EveryToolCallSurfaced ==
    [][\A b \in Backends(ProviderKind) :
          ProviderCompletes(b) =>
             /\ [i \in 1..Len(response'.toolCalls) |->
                    [name |-> response'.toolCalls[i].name,
                     arguments |-> response'.toolCalls[i].arguments]] = Returned(b)
             /\ response'.hasText = (\E i \in 1..Len(b.items) : b.items[i].type \in {"text", "message"})]_vars

\* The declaration d of a converted catalog is one of the tool t.
Declares(d, t) ==
    CASE t.type = "function" -> d.type \in {"function", "functionDeclarations"}
                                /\ d.name = t.name /\ d.required = t.required
      [] t.type = "web_search" -> d.type \in {"web_search", "googleSearch"}
      [] OTHER -> d.type = "mcp" /\ d.name = t.name

\* C32: whenever a turn calls the provider, the tools convertTools hands to
\* the backend hold, for every tool of the catalog, a declaration with its
\* name and its required parameters.
C32_CatalogPreserved ==
    [][numCompletes' = numCompletes + 1 =>
          \A t \in ToolDefinitions :
             \E d \in ConvertTools(ProviderKind, ToolDefinitions) : Declares(d, t)]_vars

\* C33: when a Dispatching cycle ends with the call counter above
\* MAX_TOOL_CALLS, every function call of its response was dispatched and has
\* its result, the turn goes to Finalizing on that response, and from then on
\* no provider call is made, the response stays, no error is raised and the
\* only step left is the one that finalizes and returns.
C33_OverBudgetFinalizesOnSameResponse ==
    /\ []((obs.warned /\ pc = "finalizing") => ENABLED Finalize)
    /\ [][/\ (pc = "building" /\ numToolsCalled > MAX_TOOL_CALLS) =>
               /\ Len(toolResults) = Len(FunctionCalls(response))
               /\ obs.dispatched = obs.returned
               /\ obs.dispatched = numToolsCalled
               /\ pc' = "finalizing"
               /\ obs'.warned
          /\ obs.warned =>
               /\ numCompletes' = numCompletes
               /\ numToolsCalled' = numToolsCalled
               /\ response' = response
               /\ obs'.dispatched = obs.dispatched
               /\ obs'.fault = "none"
               /\ pc' = "done"]_vars

C33_Witness ==
    /\ pc = "done"
    /\ obs.warned
    /\ obs.fault = "none"
    /\ numToolsCalled = MAX_TOOL_CALLS + 2
    /\ obs.dispatched = MAX_TOOL_CALLS + 2
    /\ Len(FunctionCalls(response)) = 2

\* The assistant entries of a history.
AssistantEntries(messages) == SelectSeq(messages, LAMBDA m : m.role = "assistant")

\* C34 as stated: no assistant entry is recorded before the turn terminates,
\* a step back to Deciding leaves every history as it was, and a returned turn
\* has recorded as many assistant entries as the last response holds
\* sendMessage calls whose arguments parse as JSON.
C34_EntriesOfLastResponseParsed ==
    /\ [](/\ pc \notin {"done"} => \A c \in Chats : AssistantEntries(sessions[c].messages) = <<>>
          /\ pc = "done" =>
                Len(AssistantEntries(sessions[turnChat].messages)) =
                   Len(SelectSeq(SendMessages(response),
                                 LAMBDA tc : JsonParse(tc.arguments).ok)))
    /\ [][pc' = "deciding" => \A c \in Chats : sessions'[c].messages = sessions[c].messages]_vars

\* C34 amended: the same, with the sendMessage calls of the last response
\* counted whose arguments parse as JSON to a value other than null.
C34_EntriesOfLastResponseOnly ==
    /\ [](/\ pc \notin {"done"} => \A c \in Chats : AssistantEntries(sessions[c].messages) = <<>>
          /\ pc = "done" =>
                /\ Len(AssistantEntries(sessions[turnChat].messages)) =
                      Len(SelectSeq(SendMessages(response),
                                    LAMBDA tc : /\ JsonParse(tc.arguments).ok
                                                /\ ~JsonParse(tc.arguments).isNull))
                /\ \A c \in Chats \ {turnChat} : sessions[c].messages = <<>>)
    /\ [][pc' = "deciding" => \A c \in Chats : sessions'[c].messages = sessions[c].messages]_vars

C34_Witness ==
    /\ pc = "done"
    /\ numCompletes = 2
    /\ obs.dispatched = 1
    /\ Len(response.toolCalls) = 2
    /\ response.toolCalls[1].arguments = ArgsNull
    /\ response.toolCalls[2].arguments = ArgsText
    /\ Len(sessions[turnChat].messages) = 1
    /\ sessions[turnChat].config.language = "pt"

\* The tasks of the chats other than c.
OwnedByOthers(tasks, c) == {id \in DOMAIN tasks : tasks[id].chatId # c}

\* C35: a scheduling tool dispatched for chat c leaves every task of another
\* chat and its timer as they were, creates only tasks owned by c, removes
\* only tasks owned by c (cancel_task of a foreign id fails), and list_tasks
\* answers with tasks owned by c only, the same answer as without the tasks
\* of the other chats.
C35_ChatsIsolated ==
    [][\A c \in Chats, u \in Users, call \in SchedulerCalls :
          (/\ ret = NoRet /\ ret' # NoRet
           /\ (uuid' # uuid) = (call[1] = "schedule_task")
           /\ (ret'.out.keys = {"tasks"}) = (call[1] = "list_tasks")
           /\ (ret'.out.keys = {"success", "message"}) = (call[1] = "cancel_all_tasks")
           /\ (ret'.out.error = ErrUnknownTool) = (call[1] = "frobnicate")
           /\ Dispatch(c, u, call[1], call[2])) =>
             /\ \A id \in OwnedByOthers(scheduledTasks, c) :
                   /\ id \in DOMAIN scheduledTasks'
                   /\ scheduledTasks'[id] = scheduledTasks[id]
                   /\ (id \in DOMAIN timers) = (id \in DOMAIN timers')
                   /\ id \in DOMAIN timers => timers'[id] = timers[id]
             /\ OwnedByOthers(scheduledTasks', c) = OwnedByOthers(scheduledTasks, c)
             /\ (call[1] = "cancel_task" /\ call[2].task_id \in OwnedByOthers(scheduledTasks, c))
                   => ret'.out.success = "false" /\ scheduledTasks' = scheduledTasks
                      /\ timers' = timers
             /\ call[1] = "list_tasks" =>
                   /\ \A summary \in ret'.out.data[1] :
                         /\ summary.id \in DOMAIN scheduledTasks
                         /\ scheduledTasks[summary.id].chatId = c
                   /\ ret'.out.data[1] =
                         ListScheduledTasks(
                            Restrict(scheduledTasks,
                                     (DOMAIN scheduledTasks) \ OwnedByOthers(scheduledTasks, c)),
                            timers, now, c)]_vars

C35_Witness ==
    /\ ret.out.success = "false"
    /\ ret.out.error = ErrNotOwner
    /\ \E id \in DOMAIN scheduledTasks : id \in DOMAIN timers
    /\ {scheduledTasks[id].chatId : id \in DOMAIN scheduledTasks} = Chats

C38_InlineAnswerTruncated ==
    [][(pc = "answering" /\ pc' = "handled" /\ ret'.out.data[1].type = "article") =>
          LET answer == ret.out.data.returned
              n == answer.len + answer.dots
              sent == ret'.out.data[1].message_text
              m == sent.len + sent.dots
              description == ret'.out.data[1].description
          IN  /\ m <= 4000
              /\ sent.source = answer.source
              /\ (n <= 4000) => (sent = answer)
              /\ (n > 4000) => (sent.len = 3997 /\ sent.dots = 3)
              /\ description.len + description.dots <= 100
              /\ description.source = answer.source
              /\ (m <= 100) => (description = sent)
              /\ (m > 100) => (description.len = 97 /\ description.dots = 3)]_vars

\* An answer of more than 4000 characters was sent back cut.
C38_Witness ==
    /\ pc = "handled"
    /\ response.hasText /\ response.textLength > 4000
    /\ ret.out.keys = {"answerInlineQuery"}
    /\ ret.out.data # <<>>
    /\ ret.out.data[1].type = "article"
    /\ ret.out.data[1].message_text.dots = 3
    /\ ret.out.data[1].description.dots = 3

====
